---- MODULE Spec2Model ----
(***************************************************************************)
(* Model of the IceBridge tools of StereoPipeline:                         *)
(*   fetch_icebridge_data.py   (index, fetch, validate, retry)             *)
(*   icebridge_common.py       (file helpers, batched transport)           *)
(*   process_icebridge_run.py  (batch scheduler)                           *)
(***************************************************************************)
EXTENDS Integers, Sequences, FiniteSets, TLC

VARIABLES
    \* ---- fetch_icebridge_data: options and environment ----
    pcFetch,             \* position of fetch_icebridge_data.main / doFetch
    haveNetrc,           \* ~/.netrc exists
    haveCookies,         \* ~/.urs_cookies exists
    optType,             \* options.type
    isSouth,             \* options.site == 'AN'
    fetchStart,          \* options.startFrame
    fetchStop,           \* options.stopFrame
    maxNumToFetch,       \* options.maxNumToFetch
    skipValidate,        \* options.skipValidate
    dryRun,              \* options.dryRun
    listing,             \* frames named in the remote folder listing
    \* ---- fetch_icebridge_data: program state ----
    fs,                  \* the output folder: file name -> content or Absent
    indexFile,           \* the parsed index (.csv): is it there, its lines
    attempt,             \* number of doFetch calls main has made
    numPrevFailed,       \* main's numPrevFailed
    result,              \* <<exit status>> of main, <<>> while it runs
    optAllFrames,        \* options.allFrames
    numFailed,           \* main's numFailed
    batchCaller,         \* who called fetchFilesInBatches
    allFilesToFetch,     \* doFetch's fetch list (local paths = url basenames)
    failedFiles,         \* doFetch's failedFiles
    valIter,             \* position of the validation loop (1-based)
    lastVal,             \* what the last validation iteration did (history)
    rets,                \* what the last two doFetch calls returned (history)
    prevFailed,          \* the files the last doFetch call recorded (history)
    transports,          \* kinds of transport used so far (history)
    \* ---- icebridge_common.fetchFilesInBatches ----
    batchSize,           \* parameter batchSize
    batchFiles,          \* parameter files (urls have the same base names)
    fileIter,            \* loop variable (1-based)
    curlCmd,             \* the urls added to the current command
    currentFileCount,    \* number of files in the current command
    curlQueue,           \* urls the running curl has still to fetch
    invocations,         \* the commands issued by this call (history)
    examined,            \* per examined file: was it missing or empty (history)
    \* ---- process_icebridge_run.main: the scheduling loop ----
    pcRun,               \* position of process_icebridge_run.main
    imageFrames,         \* frame number of imageCameraPairs[i], in file order
    optStartFrame,       \* options.startFrame
    optStopFrame,        \* options.stopFrame
    bundleLength,        \* options.bundleLength
    imageStereoInterval, \* options.imageStereoInterval
    breaks,              \* break frames returned by getImageSpacing
    schedI,              \* loop variable i (1-based: next pair to look at)
    frameNumbers,        \* the working batch (batchImageCameraPairs/frameNumbers)
    pairLists,           \* the list objects batchImageCameraPairs was bound to
    workList,            \* the list object batchImageCameraPairs is bound to
    emitted,             \* the batches handed to processBatch, in order
    \* ---- process_icebridge_run.getImageSpacing and the interval choice ----
    orthoGiven,          \* options.orthoFolder was given
    bboxes,              \* bounding box of each ortho image, in file order
    orthoFrames,         \* frame number of each ortho image, in file order
    manualInterval,      \* --image-stereo-interval as given (0: not given)
    interval,            \* getImageSpacing's interval
    meanRatio,           \* getImageSpacing's meanRatio, a fraction
    breaksFound,         \* getImageSpacing's breaks list
    stoppedAt,           \* the interval the search stopped at (history)
    \* ---- process_icebridge_run.main: the worker pool and the wait loop ----
    runDryRun,           \* options.dryRun
    logBatches,          \* options.logBatches
    numProcesses,        \* options.numProcesses as given
    interactive,         \* options.interactive
    poolSize,            \* number of workers of the pool (0: no pool yet)
    poolState,           \* "none", "open", "closed", "terminated", "joined"
    tasks,               \* the tasks given to pool.apply_async, in order
    batchLog,            \* the lines of batch_commands_log.txt
    notReady,            \* waitForTaskCompletionOrKeypress's notReady
    cancelled,           \* the operator has entered the quit key (history)
    poolLog,             \* what stopTaskPool has done so far (history)
    \* ---- fetch_icebridge_data.fetchAndParseIndexFile, readIndexFile ----
    pcIndex,             \* position in fetchAndParseIndexFile and its caller
    fetchNextDay,        \* options.fetchNextDay
    refetchIndex,        \* options.refetchIndex
    separateByLat,       \* tryToSeparateByLat: the type is 'ortho'
    dayLists,            \* the file names listed for each flight day
    dayI,                \* position in dayVals
    frameDict,           \* frame -> file name
    urlDict,             \* frame -> folder URL
    parsedIndex,         \* the lines of the parsed index file
    readBack,            \* what readIndexFile returned
    indexType,           \* options.type as fetchAndParseIndexFile has it
    candidates,          \* what the folder of each lidar type holds
    source,              \* the folder the index of the last day came from
    readTries,           \* calls of readIndexFile made by doFetch
    cycle,               \* number of the doFetch call that runs (1-based)
    optRefetch           \* --refetch-index as given (history)

schedVars == <<pcRun, imageFrames, optStartFrame, optStopFrame, bundleLength,
               imageStereoInterval, breaks, schedI, frameNumbers, emitted,
                   pairLists, workList>>

spaceVars == <<orthoGiven, bboxes, orthoFrames, manualInterval, interval,
               meanRatio, breaksFound, stoppedAt>>

poolVars == <<runDryRun, logBatches, numProcesses, interactive, poolSize,
              poolState, tasks, batchLog, notReady, cancelled, poolLog>>

runVars == <<schedVars, spaceVars, poolVars>>

optVars == <<haveNetrc, haveCookies, optType, isSouth, fetchStart, fetchStop,
             maxNumToFetch, skipValidate, dryRun, listing, optAllFrames>>

mainVars == <<attempt, numPrevFailed, numFailed, result, rets, prevFailed>>

cycleVars == <<indexFile, allFilesToFetch, failedFiles, valIter, lastVal,
               transports>>

batchVars == <<batchCaller, batchSize, batchFiles, fileIter, curlCmd, currentFileCount,
               curlQueue, invocations, examined>>

fetchVars == <<pcFetch, optVars, fs, mainVars, cycleVars, batchVars>>

retryVars == <<cycle, optRefetch>>

indexVars == <<pcIndex, fetchNextDay, refetchIndex, separateByLat, dayLists,
               dayI, frameDict, urlDict, parsedIndex, readBack, indexType,
               candidates, source, readTries, retryVars>>

vars == <<fetchVars, runVars, indexVars>>

----------------------------------------------------------------------------
(* Bounds of the model *)

MaxFrameNo  == 4    \* input frames are drawn from 1..MaxFrameNo
MaxBundle   == 4    \* bundle lengths 1..MaxBundle
MaxInterval == 2    \* stereo intervals 1..MaxInterval
MaxListed   == 1    \* the remote listing names frames 1..n, n <= MaxListed
MaxToFetch  == 3    \* fetch lists hold at most MaxToFetch files
MaxList     == 3    \* file lists given to fetchFilesInBatches alone
MaxBatch    == 2    \* batch sizes given to fetchFilesInBatches alone
MaxOrthos   == 4    \* getImageSpacing is given at most MaxOrthos images
MaxCoord    == 5    \* bounding boxes start at x in 0..MaxCoord
BoxWidth    == 5    \* width of the bounding boxes drawn for getImageSpacing
MaxProcs    == 2    \* --num-processes is drawn from 1..MaxProcs
MaxRunFrames == 2   \* whole runs of main have at most MaxRunFrames+1 images
MaxIndexFrame == 10 \* the largest frame number of a listing
MaxDayList == 2     \* a flight day lists at most MaxDayList files

----------------------------------------------------------------------------
(* Generic helpers *)

Range(s) == {s[k] : k \in DOMAIN s}

Max2(a, b) == IF a >= b THEN a ELSE b
Min2(a, b) == IF a <= b THEN a ELSE b

\* Python's list[start:] for any integer start.
SliceFrom(s, start) ==
    LET n    == Len(s)
        from == IF start < 0 THEN Max2(n + start, 0) ELSE Min2(start, n)
    IN  SubSeq(s, from + 1, n)

\* The ascending sequence of the members of a finite set of integers.
RECURSIVE SortedSeq(_)
SortedSeq(S) ==
    IF S = {} THEN <<>>
    ELSE LET m == CHOOSE x \in S : \A y \in S : x <= y
         IN  <<m>> \o SortedSeq(S \ {m})


----------------------------------------------------------------------------
(* File names.  A name is a frame number and the suffixes after the stem,  *)
(* e.g. IODMS3_..._00347_DEM.tif is [frame |-> 347, ext |-> <<"_DEM",      *)
(* ".tif">>] and its metadata file IODMS3_..._00347.xml has ext <<".xml">>. *)

Name(f, e) == [frame |-> f, ext |-> e]

\* fetch_icebridge_data.py line 50.
LIDAR_TYPES == {"lvis", "atm1", "atm2"}

\* fetch_icebridge_data.py line 51.
MAX_IN_ONE_CALL == 100

\* The suffixes of the files named by the listing of each type (lines 150-164).
PrimaryExt(type) ==
    CASE type = "image" -> <<".JPG">>
      [] type = "ortho" -> <<".tif">>
      [] type = "dem"   -> <<"_DEM", ".tif">>
      [] OTHER          -> <<".TXT">>

\* icebridge_common.fileExtension: the last suffix.
fileExtension(n) ==
    IF Len(n.ext) = 0 THEN "" ELSE n.ext[Len(n.ext)]

\* icebridge_common.hasImageExtension (the comparison is on the lower case).
hasImageExtension(n) ==
    fileExtension(n) \in {".tif", ".JPG"}

\* icebridge_common.xmlFile: file_DEM.tif and file_DEM.tfw become file.xml,
\* any other name gets .xml appended.
xmlFile(n) ==
    LET k == Len(n.ext)
    IN  IF k >= 2 /\ n.ext[k - 1] = "_DEM"
        THEN Name(n.frame, SubSeq(n.ext, 1, k - 2) \o <<".xml">>)
        ELSE Name(n.frame, n.ext \o <<".xml">>)

\* icebridge_common.xmlToImage: the last four characters are cut off.
xmlToImage(n) ==
    Name(n.frame, SubSeq(n.ext, 1, Len(n.ext) - 1))

\* icebridge_common.tfwFile: the last four characters become .tfw.
tfwFile(n) ==
    Name(n.frame, SubSeq(n.ext, 1, Len(n.ext) - 1) \o <<".tfw">>)

AllExts ==
    { <<".JPG">>, <<".tif">>, <<".tif", ".xml">>, <<"_DEM", ".tif">>,
      <<".xml">>, <<"_DEM", ".tfw">>, <<".TXT">>, <<".TXT", ".xml">>, <<>> }

NamesOf(frames) == {Name(f, e) : f \in frames, e \in AllExts}

----------------------------------------------------------------------------
(* File contents.  md5 stands for the hash of the bytes; an xml file holds *)
(* a PointLatitude line or none, and its DistributedFileName and Checksum  *)
(* lines, in file order; a tfw file holds some lines of floats.            *)

\* No file of that name.
Absent ==
    [size |-> -1, dec |-> FALSE, md5 |-> "", hasLat |-> FALSE, lat |-> 0,
     sums |-> <<>>, floats |-> 0]

EmptyFile ==
    [size |-> 0, dec |-> FALSE, md5 |-> "e", hasLat |-> FALSE, lat |-> 0,
     sums |-> <<>>, floats |-> 0]

Data(decodable, hash) ==
    [size |-> 1, dec |-> decodable, md5 |-> hash, hasLat |-> FALSE, lat |-> 0,
     sums |-> <<>>, floats |-> 0]

Xml(latitude, lines) ==
    [size |-> 1, dec |-> FALSE, md5 |-> "x", hasLat |-> TRUE, lat |-> latitude,
     sums |-> lines, floats |-> 0]

XmlNoLatitude(lines) ==
    [size |-> 1, dec |-> FALSE, md5 |-> "x", hasLat |-> FALSE, lat |-> 0,
     sums |-> lines, floats |-> 0]

Tfw(hash, n) ==
    [size |-> 1, dec |-> FALSE, md5 |-> hash, hasLat |-> FALSE, lat |-> 0,
     sums |-> <<>>, floats |-> n]

NameLine(e) == [tag |-> "DistributedFileName", val |-> e]
SumLine(h)  == [tag |-> "Checksum", val |-> h]

\* What a transfer of a file with the given suffixes can leave on disk.
Served(e) ==
    LET last == IF Len(e) = 0 THEN "" ELSE e[Len(e)]
    IN  CASE last = ".JPG" ->
               {EmptyFile, Data(TRUE, "a"), Data(FALSE, "a")}
          [] last = ".tif" ->
               {EmptyFile, Data(TRUE, "a"), Data(FALSE, "a"), Data(TRUE, "b")}
          [] last = ".TXT" ->
               {EmptyFile, Data(FALSE, "a"), Data(FALSE, "b")}
          [] last = ".tfw" ->
               {EmptyFile, Tfw("a", 6), Tfw("a", 5), Tfw("b", 6)}
          [] last = ".xml" ->
               {Xml(-1, <<SumLine("a")>>),
                Xml(1, <<SumLine("a")>>),
                XmlNoLatitude(<<SumLine("a")>>),
                Xml(-1, <<NameLine(<<"_other">>), SumLine("a")>>),
                Xml(-1, <<NameLine(<<"_DEM", ".tif">>), SumLine("a"),
                          NameLine(<<"_DEM", ".tfw">>), SumLine("a")>>)}
          [] OTHER -> {EmptyFile}

----------------------------------------------------------------------------
(* icebridge_common.py: the file predicates *)

\* os.path.exists: a name the folder never holds does not exist.
exists(n) == n \in DOMAIN fs /\ fs[n].size >= 0

\* icebridge_common.fileNonEmpty, lines 352-354.
fileNonEmpty(n) == exists(n) /\ fs[n].size > 0

\* icebridge_common.isValidImage, lines 51-64.
isValidImage(n) == exists(n) /\ fs[n].dec

\* fetch_icebridge_data.hasGoodLat, lines 121-125.
hasGoodLat(latitude, south) ==
    (south /\ latitude < 0) \/ (~south /\ latitude > 0)

\* icebridge_common.parseLatitude, lines 164-180, raises when the file has
\* no PointLatitude line.
LatitudeParses(n) == fs[n].hasLat
parseLatitude(n) == fs[n].lat

\* icebridge_common.hasValidChkSum, lines 110-133: the expected checksum
\* read from the lines of the xml file, "" when none is picked.
RECURSIVE ExpectedChksum(_, _, _, _, _)
ExpectedChksum(lines, baseExt, currFile, chkSumCount, expected) ==
    IF lines = <<>> THEN expected
    ELSE LET l == Head(lines)
         IN  IF l.tag = "DistributedFileName"
             THEN ExpectedChksum(Tail(lines), baseExt, l.val, chkSumCount,
                                 expected)
             ELSE LET count == chkSumCount + 1
                      picked ==
                          IF currFile # <<>>
                          THEN (IF currFile = baseExt THEN l.val ELSE expected)
                          ELSE (IF count = 1 THEN l.val ELSE expected)
                  IN  ExpectedChksum(Tail(lines), baseExt, currFile, count,
                                     picked)

\* icebridge_common.hasValidChkSum, lines 97-143.
hasValidChkSum(n) ==
    /\ exists(n)
    /\ exists(xmlFile(n))
    /\ LET expectedChksum ==
               ExpectedChksum(fs[xmlFile(n)].sums, n.ext, <<>>, 0, "")
           actualChksum == fs[n].md5
       IN  ~(actualChksum # expectedChksum \/ actualChksum = ""
                                            \/ expectedChksum = "")

\* icebridge_common.isValidTfw, lines 146-160.
isValidTfw(n) ==
    /\ fileExtension(n) = ".tfw"
    /\ hasValidChkSum(n)
    /\ fs[n].floats >= 6

----------------------------------------------------------------------------
(* icebridge_common.fetchFilesInBatches, lines 360-387 *)

Remove(files, gone) ==
    [n \in DOMAIN files |-> IF n \in gone THEN Absent ELSE files[n]]

\* Mutant of FlushNow: the command is issued one file late.
FlushNow_Late(count, iter, numFiles, size) ==
    (count > size \/ iter = numFiles) /\ count > 0

\* Mutant of FlushNow: the end of the list does not issue the command.
FlushNow_NoTail(count, iter, numFiles, size) ==
    count >= size /\ count > 0

\* Lines 377-378: the command is issued after this file.
FlushNow(count, iter, numFiles, size) ==
    (count >= size \/ iter = numFiles) /\ count > 0

\* One iteration of the loop at line 369; a command that is issued and not
\* a dry run starts curl, which the loop waits for (line 383).
BatchStep ==
    /\ pcFetch = "batch"
    /\ fileIter <= Len(batchFiles)
    /\ LET f       == batchFiles[fileIter]
           pending == ~fileNonEmpty(f)
           cmd     == IF pending THEN Append(curlCmd, f) ELSE curlCmd
           count   == IF pending THEN currentFileCount + 1
                                 ELSE currentFileCount
       IN  /\ examined' = Append(examined, pending)
           /\ fileIter' = fileIter + 1
           /\ IF FlushNow(count, fileIter, Len(batchFiles), batchSize)
              THEN /\ invocations' = Append(invocations, cmd)
                   /\ curlCmd' = <<>>
                   /\ currentFileCount' = 0
                   /\ IF dryRun
                      THEN UNCHANGED <<pcFetch, curlQueue, transports>>
                      ELSE /\ pcFetch' = "curl"
                           /\ curlQueue' = cmd
                           /\ transports' = transports \cup {"download"}
              ELSE /\ curlCmd' = cmd
                   /\ currentFileCount' = count
                   /\ UNCHANGED <<pcFetch, curlQueue, invocations, transports>>
    /\ UNCHANGED <<optVars, fs, mainVars, indexFile, allFilesToFetch,
                   failedFiles, valIter, lastVal, batchCaller, batchSize,
                   batchFiles>>
    /\ UNCHANGED <<runVars, indexVars>>

\* The running curl handles its next url (-O url): the transfer leaves one
\* of the possible contents on disk, or fails and leaves the disk as it was.
\* After the last url curl exits and the loop goes on.
CurlDeliver ==
    /\ pcFetch = "curl"
    /\ curlQueue # <<>>
    /\ LET u == Head(curlQueue)
       IN  \/ UNCHANGED fs
           \/ \E c \in Served(u.ext) : fs' = [fs EXCEPT ![u] = c]
    /\ curlQueue' = Tail(curlQueue)
    /\ pcFetch' = IF Tail(curlQueue) = <<>> THEN "batch" ELSE "curl"
    /\ UNCHANGED <<optVars, mainVars, cycleVars, batchCaller, batchSize,
                   batchFiles, fileIter, curlCmd, currentFileCount,
                   invocations, examined>>
    /\ UNCHANGED <<runVars, indexVars>>

\* The loop is over and the function returns to its caller.
BatchReturn ==
    /\ pcFetch = "batch"
    /\ fileIter > Len(batchFiles)
    /\ IF batchCaller = "doFetch"
       THEN /\ pcFetch' = "validate"
            /\ invocations' = <<>>
            /\ examined' = <<>>
            /\ batchFiles' = <<>>
            /\ fileIter' = 1
       ELSE /\ pcFetch' = "returned"
            /\ UNCHANGED <<invocations, examined, batchFiles, fileIter>>
    /\ UNCHANGED <<optVars, fs, mainVars, cycleVars, batchCaller, batchSize,
                   curlCmd, currentFileCount, curlQueue>>
    /\ UNCHANGED <<runVars, indexVars>>

----------------------------------------------------------------------------
(* fetch_icebridge_data.doFetch, lines 366-532 *)

\* Line 620.
RetryBudget == 10

\* Mutant of AuthOk: one of the two files is enough.
AuthOk_Either == haveNetrc \/ haveCookies

\* Line 370.
AuthOk == haveNetrc /\ haveCookies

\* Lines 435-436.
hasTfw == (optType = "dem")
hasXml == (optType \in LIDAR_TYPES) \/ (optType = "ortho") \/ hasTfw

\* Lines 444-448: the files fetched for one frame of the index.
CurrFilesToFetch(filename) ==
    <<filename>>
    \o (IF hasXml THEN <<xmlFile(filename)>> ELSE <<>>)
    \o (IF hasTfw THEN <<tfwFile(filename)>> ELSE <<>>)

\* Mutant of FilesOfFrames: the files of frame 1 are fetched whatever the
\* index has.
FilesOfFrames_FrameOne(lines, start, stop) ==
    CurrFilesToFetch(Name(1, PrimaryExt(optType)))

\* Lines 438-454: the fetch list of the index lines inside [start, stop].
RECURSIVE FilesOfFrames(_, _, _)
FilesOfFrames(lines, start, stop) ==
    IF lines = <<>> THEN <<>>
    ELSE LET l == Head(lines)
         IN  (IF l.frame >= start /\ l.frame <= stop
              THEN CurrFilesToFetch(l.filename) ELSE <<>>)
             \o FilesOfFrames(Tail(lines), start, stop)

\* Lines 456-458.
Truncated(files, maxNum) ==
    IF maxNum > 0 /\ Len(files) > maxNum
    THEN SubSeq(files, 1, maxNum)
    ELSE files

\* Lines 359-362 (fetchAndParseIndexFile): the index written for the frames
\* of the listing, in ascending frame order.
IndexLines(frames, type) ==
    LET s == SortedSeq(frames)
    IN  [k \in 1 .. Len(s) |->
            [frame |-> s[k], filename |-> Name(s[k], PrimaryExt(type))]]

\* Lines 403-409: the smallest and the largest frame of the index.
FirstFrame(lines) ==
    IF lines = <<>> THEN 99999999 ELSE lines[1].frame
LastFrame(lines) ==
    IF lines = <<>> THEN 0 ELSE lines[Len(lines)].frame

\* The return values of the last two calls, after one more has returned v.
Returned(r, v) == SliceFrom(Append(r, v), -2)

NoIndex == [there |-> FALSE, lines |-> <<>>]

NoVal == [path |-> Name(0, <<>>), failed |-> "none", wiped |-> {},
          recorded |-> <<>>, mismatch |-> FALSE]

\* main line 620-621 and doFetch lines 368-373: the next attempt starts;
\* without the two authentication files doFetch returns -1 at once.
DoFetchStart ==
    /\ pcFetch = "main"
    /\ attempt < RetryBudget
    /\ attempt' = attempt + 1
    /\ IF ~AuthOk
       THEN /\ pcFetch' = "check"
            /\ numFailed' = -1
            /\ rets' = Returned(rets, -1)
            /\ prevFailed' = {}
       ELSE /\ pcFetch' = "index"
            /\ UNCHANGED <<numFailed, rets, prevFailed>>
    /\ UNCHANGED <<optVars, fs, numPrevFailed, result, cycleVars, batchVars>>
    /\ UNCHANGED <<runVars, indexVars>>

\* doFetch lines 375-461: the index is resolved (kept when the parsed index
\* is non-empty, else the listing is fetched and the index written), read,
\* the fetch list is built and fetchFilesInBatches is called.
ResolveIndex ==
    /\ pcFetch = "index"
    /\ LET keep   == indexFile.there /\ indexFile.lines # <<>>
           lidar  == optType \in LIDAR_TYPES
           lines  == IF keep THEN indexFile.lines
                             ELSE IndexLines(listing, optType)
           all    == IF keep THEN optAllFrames ELSE (optAllFrames \/ lidar)
           start  == IF all THEN FirstFrame(lines) ELSE fetchStart
           stop   == IF all THEN LastFrame(lines) ELSE fetchStop
           files  == Truncated(FilesOfFrames(lines, start, stop),
                               maxNumToFetch)
       IN  /\ indexFile' = [there |-> TRUE, lines |-> lines]
           /\ transports' =
                 IF keep THEN transports
                 ELSE transports \cup {"index"}
                                 \cup (IF lidar THEN {"probe"} ELSE {})
           /\ optAllFrames' = all
           /\ fetchStart' = start
           /\ fetchStop' = stop
           /\ allFilesToFetch' = files
           /\ batchFiles' = files
    /\ batchCaller' = "doFetch"
    /\ batchSize' = MAX_IN_ONE_CALL
    /\ fileIter' = 1
    /\ curlCmd' = <<>>
    /\ currentFileCount' = 0
    /\ curlQueue' = <<>>
    /\ invocations' = <<>>
    /\ examined' = <<>>
    /\ failedFiles' = <<>>
    /\ valIter' = 1
    /\ lastVal' = NoVal
    /\ pcFetch' = "batch"
    /\ UNCHANGED <<haveNetrc, haveCookies, optType, isSouth, maxNumToFetch,
                   skipValidate, dryRun, listing, fs, mainVars>>
    /\ UNCHANGED <<runVars, indexVars>>

\* Mutant of ChkSumFailures: only the artifact is recorded.
ChkSumFailures_One(outputPath) == <<outputPath>>

\* Lines 507-508 and 521-522: what a failed checksum or tfw check records.
ChkSumFailures(outputPath) == <<outputPath, xmlFile(outputPath)>>

\* The content hash of the file differs from the checksum its xml names.
ChkSumMismatch(n) ==
    /\ exists(n)
    /\ exists(xmlFile(n))
    /\ LET e == ExpectedChksum(fs[xmlFile(n)].sums, n.ext, <<>>, 0, "")
       IN  e # "" /\ e # fs[n].md5

\* One iteration of the validation loop at line 465.
ValidateStep ==
    /\ pcFetch = "validate"
    /\ valIter <= Len(allFilesToFetch)
    /\ valIter' = valIter + 1
    /\ LET outputPath == allFilesToFetch[valIter]
           ext        == fileExtension(outputPath)
           Verdict(kind, gone, rec) ==
               /\ fs' = Remove(fs, gone)
               /\ failedFiles' = failedFiles \o rec
               /\ lastVal' = [path |-> outputPath, failed |-> kind,
                              wiped |-> gone, recorded |-> rec,
                              mismatch |-> ChkSumMismatch(outputPath)]
               /\ UNCHANGED <<pcFetch, result>>
       IN  IF skipValidate
             THEN Verdict("skipped", {}, <<>>)
           ELSE IF ~fileNonEmpty(outputPath)
             THEN Verdict("missing", {}, <<outputPath>>)
           ELSE IF hasImageExtension(outputPath) /\ ~isValidImage(outputPath)
             THEN Verdict("image", {outputPath}, <<outputPath>>)
           ELSE IF ext = ".xml"
             THEN IF ~LatitudeParses(outputPath)
                    \* parseLatitude raises and nothing catches it
                    THEN /\ pcFetch' = "raised"
                         /\ result' = <<1>>
                         /\ UNCHANGED <<fs, failedFiles, lastVal>>
                  ELSE IF ~hasGoodLat(parseLatitude(outputPath), isSouth)
                    THEN Verdict("latitude",
                                 {outputPath, xmlToImage(outputPath)},
                                 <<>>)
                  ELSE Verdict("none", {}, <<>>)
           ELSE IF hasXml /\ ext # ".tfw" /\ ~hasValidChkSum(outputPath)
             THEN Verdict("chksum", {outputPath, xmlFile(outputPath)},
                          ChkSumFailures(outputPath))
           ELSE IF hasTfw /\ ext = ".tfw" /\ ~isValidTfw(outputPath)
             THEN Verdict("tfw", {outputPath, xmlFile(outputPath)},
                          ChkSumFailures(outputPath))
           ELSE Verdict("none", {}, <<>>)
    /\ UNCHANGED <<optVars, attempt, numPrevFailed, numFailed, rets,
                   prevFailed, indexFile, allFilesToFetch, transports, batchVars>>
    /\ UNCHANGED <<runVars, indexVars>>

\* Lines 528-532: doFetch returns the number of failed files.
DoFetchReturn ==
    /\ pcFetch = "validate"
    /\ valIter > Len(allFilesToFetch)
    /\ pcFetch' = "check"
    /\ numFailed' = Len(failedFiles)
    /\ rets' = Returned(rets, Len(failedFiles))
    /\ prevFailed' = Range(failedFiles)
    /\ UNCHANGED <<optVars, fs, attempt, numPrevFailed, result, cycleVars,
                   batchVars>>
    /\ UNCHANGED <<runVars, indexVars>>

----------------------------------------------------------------------------
(* fetch_icebridge_data.main, lines 617-634: the retry loop *)

\* Mutant of IsSuccess: a negative return value counts as success too.
IsSuccess_NotPositive(n) == n <= 0

\* Line 623.
IsSuccess(n) == n = 0

\* Mutant of NoProgress: the loop stops only when the count has grown.
NoProgress_Grown(n, prev) == n > prev /\ prev >= 0

\* Line 626.
NoProgress(n, prev) == n = prev

\* Lines 623-632: main looks at what doFetch returned.
MainCheck ==
    /\ pcFetch = "check"
    /\ IF IsSuccess(numFailed)
         THEN /\ result' = <<0>>
              /\ pcFetch' = "done"
              /\ UNCHANGED numPrevFailed
       ELSE IF NoProgress(numFailed, numPrevFailed)
         THEN /\ result' = <<-1>>
              /\ pcFetch' = "done"
              /\ UNCHANGED numPrevFailed
       ELSE /\ numPrevFailed' = numFailed
            /\ pcFetch' = "main"
            /\ UNCHANGED result
    /\ UNCHANGED <<optVars, fs, attempt, numFailed, rets, prevFailed, cycleVars,
                   batchVars>>
    /\ UNCHANGED <<runVars, indexVars>>

\* Line 634: the loop has used up its attempts.
MainExhausted ==
    /\ pcFetch = "main"
    /\ attempt >= RetryBudget
    /\ result' = <<-1>>
    /\ pcFetch' = "done"
    /\ UNCHANGED <<optVars, fs, attempt, numPrevFailed, numFailed, rets,
                   prevFailed, cycleVars, batchVars>>
    /\ UNCHANGED <<runVars, indexVars>>

----------------------------------------------------------------------------
(* process_icebridge_run.getImageSpacing, lines 89-186.  The ratios are    *)
(* kept as exact fractions [num, den]; the mean the code computes in       *)
(* floating point is the exact mean and the side err (-1, 0 or 1) on which *)
(* the rounding of the sum has left it: (0.8 + 0.8 + 0.8) / 3 is           *)
(* 0.8000000000000002 in IEEE double arithmetic, which is above 0.8.       *)

RECURSIVE GCD(_, _)
GCD(a, b) == IF b = 0 THEN a ELSE GCD(b, a % b)

Frac(n, d) == LET g == GCD(n, d) IN [num |-> n \div g, den |-> d \div g]

\* f + a/t and f/c, for f a fraction and a, t, c integers (t, c > 0).
FracPlus(f, a, t) == Frac(f.num * t + a * f.den, f.den * t)
FracOver(f, c) == Frac(f.num, f.den * c)
FracGreater(f, g) == f.num * g.den > g.num * f.den
FracLess(f, g) == f.num * g.den < g.num * f.den
FracEqual(f, g) == f.num * g.den = g.num * f.den

\* The computed value r = [num, den, err] against the constant c.
Rounded(f, e) == [num |-> f.num, den |-> f.den, err |-> e]
FloatGreater(r, c) == FracGreater(r, c) \/ (FracEqual(r, c) /\ r.err > 0)
FloatLess(r, c) == FracLess(r, c) \/ (FracEqual(r, c) /\ r.err < 0)

\* Lines 163 and 172: a sum of two or more ratios is rounded.
Roundings(count) == IF count >= 2 THEN {-1, 0, 1} ELSE {0}

\* Lines 125-126.
MAX_RATIO == [num |-> 4, den |-> 5]
MIN_RATIO == [num |-> 2, den |-> 5]

Box(x0, x1, y0, y1) == [minX |-> x0, maxX |-> x1, minY |-> y0, maxY |-> y1]

\* Lines 128-134.
getBboxArea(bbox) ==
    LET width  == bbox.maxX - bbox.minX
        height == bbox.maxY - bbox.minY
    IN  IF width < 0 \/ height < 0 THEN 0 ELSE width * height

\* Lines 153-156.
Intersect(thisBox, lastBox) ==
    Box(Max2(lastBox.minX, thisBox.minX), Min2(lastBox.maxX, thisBox.maxX),
        Max2(lastBox.minY, thisBox.minY), Min2(lastBox.maxY, thisBox.maxY))

\* Mutant of MarksBreak: a pair without overlap is a break at any interval.
MarksBreak_AnyInterval(k, area) == area <= 0

\* Line 167: if (interval == 1) and (area <= 0).
MarksBreak(k, area) == k = 1 /\ area <= 0

\* Lines 148-169: the loop over the pairs (i, i+k) from pair i on (1-based),
\* entered with the sum, the count and the breaks so far.  A box of area 0
\* makes the division at line 159 fail.
RECURSIVE PairLoop(_, _, _)
PairLoop(i, k, acc) ==
    IF i > Len(bboxes) - k \/ acc.failed THEN acc
    ELSE LET thisBox  == bboxes[i]
             lastBox  == bboxes[i + k]
             thisArea == getBboxArea(thisBox)
             area     == getBboxArea(Intersect(thisBox, lastBox))
         IN  IF thisArea = 0
             THEN [acc EXCEPT !.failed = TRUE]
             ELSE PairLoop(i + 1, k,
                    [sum    |-> IF area > 0 THEN FracPlus(acc.sum, area, thisArea)
                                            ELSE acc.sum,
                     count  |-> IF area > 0 THEN acc.count + 1 ELSE acc.count,
                     found  |-> IF MarksBreak(k, area)
                                THEN Append(acc.found, orthoFrames[i])
                                ELSE acc.found,
                     failed |-> FALSE])

\* One pass of the while loop for interval k, entered with the breaks b.
Pass(k, b) ==
    PairLoop(1, k, [sum |-> Frac(0, 1), count |-> 0, found |-> b,
                    failed |-> FALSE])

\* Mutant of SearchGoesOn: the search goes on down to the lower threshold.
SearchGoesOn_ToMinRatio(ratio) == FloatGreater(ratio, MIN_RATIO)

\* Line 139: while meanRatio > MAX_RATIO.
SearchGoesOn(ratio) == FloatGreater(ratio, MAX_RATIO)

\* Mutant of BackedOff: the step back is taken at interval 1 too.
BackedOff_Always(k, ratio) == IF FloatLess(ratio, MIN_RATIO) THEN k - 1 ELSE k

\* Lines 176-177.
BackedOff(k, ratio) ==
    IF FloatLess(ratio, MIN_RATIO) /\ k > 1 THEN k - 1 ELSE k

\* Line 320 and lines 93-137: main calls getImageSpacing, which returns
\* None at once without an ortho folder and else lists the ortho images and
\* loads their bounding boxes.
SpacingCall ==
    /\ pcRun = "start"
    /\ pcRun' = IF orthoGiven THEN "spacing" ELSE "spaced"
    /\ interval' = 0
    /\ meanRatio' = Rounded(Frac(1, 1), 0)
    /\ breaksFound' = <<>>
    /\ UNCHANGED <<orthoGiven, bboxes, orthoFrames, manualInterval, stoppedAt>>
    /\ UNCHANGED <<imageFrames, optStartFrame, optStopFrame, bundleLength,
                   imageStereoInterval, breaks, schedI, frameNumbers, emitted,
                   pairLists, workList>>
    /\ UNCHANGED <<indexVars, fetchVars, poolVars>>

\* Lines 139-173: one pass of the while loop.  Too few images raise the
\* exception of line 147; a division by zero (line 159 or line 172) raises
\* too.
SpacingStep ==
    /\ pcRun = "spacing"
    /\ SearchGoesOn(meanRatio)
    /\ interval' = interval + 1
    /\ LET pass == Pass(interval + 1, breaksFound)
       IN  IF Len(bboxes) <= interval + 1
             THEN /\ pcRun' = "raised"
                  /\ UNCHANGED <<meanRatio, breaksFound>>
           ELSE IF pass.failed \/ pass.count = 0
             THEN /\ pcRun' = "raised"
                  /\ UNCHANGED meanRatio
                  /\ breaksFound' = pass.found
           ELSE /\ \E e \in Roundings(pass.count) :
                     meanRatio' = Rounded(FracOver(pass.sum, pass.count), e)
                /\ breaksFound' = pass.found
                /\ UNCHANGED pcRun
    /\ UNCHANGED <<orthoGiven, bboxes, orthoFrames, manualInterval, stoppedAt>>
    /\ UNCHANGED <<imageFrames, optStartFrame, optStopFrame, bundleLength,
                   imageStereoInterval, breaks, schedI, frameNumbers, emitted,
                   pairLists, workList>>
    /\ UNCHANGED <<indexVars, fetchVars, poolVars>>

\* Lines 175-182: the search is over; the interval is backed off by one
\* step if need be and returned with the breaks.
SpacingReturn ==
    /\ pcRun = "spacing"
    /\ ~SearchGoesOn(meanRatio)
    /\ stoppedAt' = interval
    /\ interval' = BackedOff(interval, meanRatio)
    /\ pcRun' = "spaced"
    /\ UNCHANGED <<orthoGiven, bboxes, orthoFrames, manualInterval, meanRatio,
                   breaksFound>>
    /\ UNCHANGED <<imageFrames, optStartFrame, optStopFrame, bundleLength,
                   imageStereoInterval, breaks, schedI, frameNumbers, emitted,
                   pairLists, workList>>
    /\ UNCHANGED <<indexVars, fetchVars, poolVars>>

\* getImageSpacing has not been called.
SpaceIdle ==
    /\ orthoGiven = FALSE
    /\ bboxes = <<>>
    /\ orthoFrames = <<>>
    /\ manualInterval = 0
    /\ interval = 0
    /\ meanRatio = Rounded(Frac(1, 1), 0)
    /\ breaksFound = <<>>
    /\ stoppedAt = 0

\* No pool has been created, nothing waits.
PoolNone ==
    /\ poolSize = 0
    /\ poolState = "none"
    /\ tasks = <<>>
    /\ notReady = 0
    /\ cancelled = FALSE
    /\ poolLog = <<>>

\* The options of process_icebridge_run at their defaults (lines 228-237).
PoolIdle ==
    /\ batchLog = <<>>
    /\ runDryRun = FALSE
    /\ logBatches = FALSE
    /\ numProcesses = 1
    /\ interactive = FALSE
    /\ PoolNone

----------------------------------------------------------------------------
(* fetch_icebridge_data: fetchAndParseIndexFile and readIndexFile *)

\* Text is a sequence of one-character strings; a file is a sequence of
\* lines, the line break being the boundary between two of them.
Digits == <<"0", "1", "2", "3", "4", "5", "6", "7", "8", "9">>
IsDigit(c) == \E d \in 1 .. 10 : Digits[d] = c
DigitVal(c) == (CHOOSE d \in 1 .. 10 : Digits[d] = c) - 1

\* Python's str() of a frame number.
RECURSIVE Str(_)
Str(n) ==
    IF n < 10 THEN <<Digits[n + 1]>>
    ELSE Str(n \div 10) \o <<Digits[(n % 10) + 1]>>

\* Python's str.strip(): white space is removed at both ends only.
Strip(s) ==
    LET ink == {i \in 1 .. Len(s) : s[i] # " "}
    IN  IF ink = {} THEN <<>>
        ELSE SubSeq(s, CHOOSE i \in ink : \A j \in ink : i <= j,
                       CHOOSE i \in ink : \A j \in ink : i >= j)

\* Python's str.split(','): one part more than there are commas.
RECURSIVE Split(_)
Split(s) ==
    LET commas == {i \in 1 .. Len(s) : s[i] = ","}
    IN  IF commas = {} THEN <<s>>
        ELSE LET i == CHOOSE c \in commas : \A d \in commas : c <= d
             IN  <<SubSeq(s, 1, i - 1)>> \o Split(SubSeq(s, i + 1, Len(s)))

\* Python's int() of a text: white space around the digits is allowed.
IsInt(s) == Strip(s) # <<>> /\ \A i \in 1 .. Len(Strip(s)) : IsDigit(Strip(s)[i])
RECURSIVE IntOfDigits(_)
IntOfDigits(s) ==
    IF s = <<>> THEN 0
    ELSE 10 * IntOfDigits(SubSeq(s, 1, Len(s) - 1)) + DigitVal(s[Len(s)])
ParseInt(s) == IntOfDigits(Strip(s))

\* d[k] = v on a Python dictionary.
Put(d, k, v) == [x \in (DOMAIN d) \cup {k} |-> IF x = k THEN v ELSE d[x]]
EmptyDict == [x \in {} |-> <<>>]

\* The character a listed file name has where the patterns of lines 147-158
\* and of getFrameNumberFromFilename2 have a dot: an unescaped dot, as in
\* ">ILVIS\w+.TXT" with "(ILVIS.*?_)(\d+)(.TXT)", matches any character.
Seps == {".", ","}

\* A listed file name of flight day dayVal: a stamp of the day, the frame
\* number as a zero-padded field, the separator and the extension.
ListedName(dayVal, frame, sep) ==
    <<(IF dayVal = 0 THEN "a" ELSE "b"), "_",
      Digits[(frame \div 10) + 1], Digits[(frame % 10) + 1], sep, "t">>

\* icebridge_common.getFrameNumberFromFilename2: int() of the frame field,
\* the only digits of a listed name.
getFrameNumberFromFilename2(filename) ==
    IntOfDigits(SelectSeq(filename, IsDigit))

\* getFolderUrl with day options.day + dayVal.
getFolderUrl(dayVal) == <<"u", Digits[dayVal + 1]>>

\* fetchAndParseIndexFileAux lines 165-233 on the listing of one folder: a
\* listing entry is a file name and whether its latitude is on the wanted
\* side, if its metadata file has a latitude at all. With two files of one
\* frame among orthoimages the metadata of every file is fetched and parsed
\* (parseLatitude, line 208, raises on a file without latitude), the files of bad
\* latitude are dropped, and two good ones of one frame raise.
RECURSIVE RecordFiles(_, _, _)
RecordFiles(fileList, folderUrl, acc) ==
    IF fileList = <<>> THEN acc
    ELSE LET filename == Head(fileList).filename
             frame    == getFrameNumberFromFilename2(filename)
         IN  RecordFiles(Tail(fileList), folderUrl,
                 [acc EXCEPT !.frameDict = Put(acc.frameDict, frame, filename),
                             !.urlDict = Put(acc.urlDict, frame, folderUrl)])

\* Mutant of KeepsFile: the files of bad latitude stay in.
KeepsFile_All(e) == TRUE

\* Lines 207-212 and 219-221: a file whose metadata is marked bad is skipped.
KeepsFile(e) == e.goodLat

fetchAndParseIndexFileAux(separate, folderUrl, fileList) ==
    LET Twice(l) == \E i, j \in 1 .. Len(l) :
                        /\ i < j
                        /\ getFrameNumberFromFilename2(l[i].filename)
                             = getFrameNumberFromFilename2(l[j].filename)
        haveToSeparateByLat == separate /\ Twice(fileList)
        kept == IF haveToSeparateByLat THEN SelectSeq(fileList, KeepsFile)
                ELSE fileList
        Unparsed == \E i \in 1 .. Len(fileList) : ~fileList[i].hasLat
    IN  IF haveToSeparateByLat /\ (Unparsed \/ Twice(kept))
        THEN [raised |-> TRUE, frameDict |-> EmptyDict, urlDict |-> EmptyDict]
        ELSE RecordFiles(kept, folderUrl,
                 [raised |-> FALSE, frameDict |-> EmptyDict,
                  urlDict |-> EmptyDict])

\* Lines 350-357: a frame of the current day enters the main index unless
\* the index has the frame already.
TakesCurrentDay_Always(frame, dict, localDict) == frame \in DOMAIN localDict

TakesCurrentDay(frame, dict, localDict) ==
    frame \in DOMAIN localDict /\ frame \notin DOMAIN dict

MergeDay(dict, localDict) ==
    [f \in (DOMAIN dict) \cup (DOMAIN localDict) |->
        IF TakesCurrentDay(f, dict, localDict) THEN localDict[f] ELSE dict[f]]

\* Line 362: one line of the parsed index.
IndexLine(frame, filename, url) ==
    Str(frame) \o <<",", " ">> \o filename \o <<",", " ">> \o url

\* Lines 359-362: the parsed index of the two dictionaries, frames ascending.
WrittenIndex(fDict, uDict) ==
    LET s == SortedSeq(DOMAIN fDict)
    IN  [k \in 1 .. Len(s) |-> IndexLine(s[k], fDict[s[k]], uDict[s[k]])]

\* readIndexFile lines 105-119; a line of fewer than three parts raises,
\* and so does int() of a first part that is not a number.
RECURSIVE ReadLines(_, _)
ReadLines(lines, acc) ==
    IF lines = <<>> \/ acc.raised THEN acc
    ELSE LET parts == Split(Strip(Head(lines)))
         IN  IF Len(parts) <= 2 \/ ~IsInt(parts[1])
             THEN [acc EXCEPT !.raised = TRUE]
             ELSE ReadLines(Tail(lines),
                     [acc EXCEPT
                        !.frameDict = Put(acc.frameDict, ParseInt(parts[1]),
                                          Strip(parts[2])),
                        !.urlDict = Put(acc.urlDict, ParseInt(parts[1]),
                                        Strip(parts[3]))])

readIndexFile(lines) ==
    ReadLines(lines, [raised |-> FALSE, frameDict |-> EmptyDict,
                      urlDict |-> EmptyDict])

NotRead == [raised |-> FALSE, frameDict |-> EmptyDict, urlDict |-> EmptyDict]

\* Line 50: the lidar types in the order they are probed.
LidarOrder == <<"lvis", "atm1", "atm2">>

\* What the folder of one lidar type can hold for the date: nothing (the
\* URL does not exist), an empty listing, files whose first metadata file
\* cannot be parsed, or files of the northern or the southern hemisphere.
LidarKinds ==
    {[there |-> FALSE, listed |-> FALSE, hasLat |-> FALSE, lat |-> 1],
     [there |-> TRUE,  listed |-> FALSE, hasLat |-> FALSE, lat |-> 1],
     [there |-> TRUE,  listed |-> TRUE,  hasLat |-> FALSE, lat |-> 1],
     [there |-> TRUE,  listed |-> TRUE,  hasLat |-> TRUE,  lat |-> 1],
     [there |-> TRUE,  listed |-> TRUE,  hasLat |-> TRUE,  lat |-> -1]}

NoCandidates == [t \in LIDAR_TYPES |-> CHOOSE k \in LidarKinds : ~k.there]

\* getFolderUrl of a lidar type for day options.day + dayVal.
LidarFolderUrl(type, dayVal) ==
    <<"u", Digits[dayVal + 1],
      (CASE type = "lvis" -> "l" [] type = "atm1" -> "m" [] OTHER -> "n")>>

NoSource == [type |-> "none", url |-> <<>>]

\* Mutant of LatAccepted: a latitude of either sign is taken.
LatAccepted_Any(latitude, south) == TRUE

\* Line 327: the test of the representative file of a lidar folder.
LatAccepted(latitude, south) == hasGoodLat(latitude, south)

\* Lines 302-338: the existing folders, in order, from the i-th on; the
\* first file of the listing is the representative, an empty listing is
\* passed over, a metadata file without latitude raises in parseLatitude.
RECURSIVE PickByLatitude(_, _, _)
PickByLatitude(found, i, south) ==
    IF i > Len(found) THEN "raise"
    ELSE LET c == candidates[found[i]]
         IN  IF ~c.listed THEN PickByLatitude(found, i + 1, south)
             ELSE IF ~c.hasLat THEN "raise"
             ELSE IF LatAccepted(c.lat, south) THEN found[i]
             ELSE PickByLatitude(found, i + 1, south)

\* Lines 276-345: the folder of the day's listing and the type it is parsed
\* as. For lidar every type is probed; none found leaves the last URL
\* probed and the type as it was, one found is taken as it is, and with
\* two or more the latitude decides.
ChooseFolder(dayVal, type, fileList, south) ==
    IF type \notin LIDAR_TYPES
    THEN [raised |-> FALSE, type |-> type, url |-> getFolderUrl(dayVal),
          listing |-> fileList]
    ELSE LET Exists(t) == candidates[t].there
             found == SelectSeq(LidarOrder, Exists)
             ListingOf(t) == IF candidates[t].listed THEN fileList ELSE <<>>
             picked == IF Len(found) = 1 THEN found[1]
                       ELSE PickByLatitude(found, 1, south)
         IN  IF found = <<>>
             THEN [raised |-> FALSE, type |-> type,
                   url |-> LidarFolderUrl(LidarOrder[Len(LidarOrder)], dayVal),
                   listing |-> <<>>]
             ELSE IF picked = "raise"
             THEN [raised |-> TRUE, type |-> type, url |-> <<>>,
                   listing |-> <<>>]
             ELSE [raised |-> FALSE, type |-> picked,
                   url |-> LidarFolderUrl(picked, dayVal),
                   listing |-> ListingOf(picked)]

\* Line 241-244.
DayVals == IF fetchNextDay THEN <<0, 1>> ELSE <<0>>

\* Lines 237-262: the next-day option forces a refetch, a refetch wipes the
\* parsed index, and a parsed index that is not empty is kept as it is.
IndexStart ==
    /\ pcIndex = "start"
    /\ LET refetch == refetchIndex \/ fetchNextDay
           onDisk  == IF refetch THEN <<>> ELSE parsedIndex
       IN  /\ refetchIndex' = refetch
           /\ parsedIndex' = onDisk
           /\ pcIndex' = IF onDisk # <<>> THEN "kept" ELSE "days"
    /\ frameDict' = EmptyDict
    /\ urlDict' = EmptyDict
    /\ dayI' = 1
    /\ UNCHANGED <<fetchNextDay, separateByLat, dayLists, readBack, indexType,
                   candidates, source, readTries, retryVars>>
    /\ UNCHANGED <<fetchVars, runVars>>

\* Lines 266-357: one flight day; its folder is chosen, its listing is
\* fetched and parsed and its frames are appended to the main index.
IndexDay ==
    /\ pcIndex = "days"
    /\ dayI <= Len(DayVals)
    /\ LET folder == ChooseFolder(DayVals[dayI], indexType, dayLists[dayI],
                                  isSouth)
           local  == fetchAndParseIndexFileAux(separateByLat, folder.url,
                                               folder.listing)
       IN  IF folder.raised \/ local.raised
           THEN /\ pcIndex' = "raised"
                /\ UNCHANGED <<frameDict, urlDict, dayI, indexType, source>>
           ELSE /\ frameDict' = MergeDay(frameDict, local.frameDict)
                /\ urlDict' = MergeDay(urlDict, local.urlDict)
                /\ dayI' = dayI + 1
                /\ indexType' = folder.type
                /\ source' = [type |-> folder.type, url |-> folder.url]
                /\ UNCHANGED pcIndex
    /\ UNCHANGED <<fetchNextDay, refetchIndex, separateByLat, dayLists,
                   parsedIndex, readBack, candidates, readTries, retryVars>>
    /\ UNCHANGED <<fetchVars, runVars>>

\* Lines 359-364: the combined index is written and its path returned.
IndexWrite ==
    /\ pcIndex = "days"
    /\ dayI > Len(DayVals)
    /\ parsedIndex' = WrittenIndex(frameDict, urlDict)
    /\ pcIndex' = "written"
    /\ UNCHANGED <<fetchNextDay, refetchIndex, separateByLat, dayLists, dayI,
                   frameDict, urlDict, readBack, indexType, candidates, source,
                   readTries, retryVars>>
    /\ UNCHANGED <<fetchVars, runVars>>

\* Mutant of RefetchAfter: no read of the index is inside a try.
RefetchAfter_Never(tries) == FALSE

\* doFetch lines 393-400: the first call of readIndexFile is inside the try,
\* the one in the except clause is not.
RefetchAfter(tries) == tries = 0

\* doFetch lines 383-401: the parsed index the resolver returned is read.
\* When the first readIndexFile raises, the index is refetched (line 398
\* sets options.refetchIndex and line 399 calls fetchAndParseIndexFile
\* again); the second readIndexFile is outside the try.
IndexRead ==
    /\ pcIndex \in {"written", "kept"}
    /\ readTries' = readTries + 1
    /\ LET got == readIndexFile(parsedIndex)
       IN  IF ~got.raised
           THEN /\ readBack' = got
                /\ pcIndex' = IF pcIndex = "written" THEN "read" ELSE "readkept"
                /\ UNCHANGED refetchIndex
           ELSE IF RefetchAfter(readTries)
           THEN /\ refetchIndex' = TRUE
                /\ pcIndex' = "start"
                /\ UNCHANGED readBack
           ELSE /\ pcIndex' = "raised"
                /\ UNCHANGED <<readBack, refetchIndex>>
    /\ UNCHANGED <<fetchNextDay, separateByLat, dayLists, dayI, frameDict,
                   urlDict, parsedIndex, indexType, candidates, source,
                   retryVars>>
    /\ UNCHANGED <<fetchVars, runVars>>

\* fetchAndParseIndexFile is not running.
IndexIdle ==
    /\ pcIndex = "off"
    /\ fetchNextDay = FALSE
    /\ refetchIndex = FALSE
    /\ separateByLat = FALSE
    /\ dayLists = <<>>
    /\ dayI = 1
    /\ frameDict = EmptyDict
    /\ urlDict = EmptyDict
    /\ parsedIndex = <<>>
    /\ readBack = NotRead
    /\ indexType = "image"
    /\ candidates = NoCandidates
    /\ source = NoSource
    /\ readTries = 0
    /\ cycle = 0
    /\ optRefetch = FALSE

----------------------------------------------------------------------------
(* Initial states *)

\* process_icebridge_run is not running.
SchedIdle ==
    /\ pcRun = "off"
    /\ imageFrames = <<>>
    /\ optStartFrame = -1
    /\ optStopFrame = -1
    /\ bundleLength = 2
    /\ imageStereoInterval = 1
    /\ breaks = {}
    /\ schedI = 1
    /\ frameNumbers = <<>>
    /\ emitted = <<>>
    /\ pairLists = << <<>> >>
    /\ workList = 1
    /\ SpaceIdle
    /\ PoolIdle

\* The locals of doFetch and fetchFilesInBatches before any call.
FetchLocalsInit ==
    /\ allFilesToFetch = <<>>
    /\ failedFiles = <<>>
    /\ valIter = 1
    /\ lastVal = NoVal
    /\ fileIter = 1
    /\ curlCmd = <<>>
    /\ currentFileCount = 0
    /\ curlQueue = <<>>
    /\ invocations = <<>>
    /\ examined = <<>>

\* main's variables at line 619, before the first attempt.
MainLocalsInit ==
    /\ attempt = 0
    /\ numPrevFailed = -1
    /\ numFailed = -1
    /\ result = <<>>
    /\ rets = <<>>
    /\ prevFailed = {}
    /\ transports = {}

\* fetch_icebridge_data is not running.
FetchIdle ==
    /\ pcFetch = "off"
    /\ haveNetrc = TRUE
    /\ haveCookies = TRUE
    /\ optType = "image"
    /\ isSouth = TRUE
    /\ fetchStart = 1
    /\ fetchStop = 1
    /\ maxNumToFetch = -1
    /\ skipValidate = FALSE
    /\ dryRun = FALSE
    /\ listing = {}
    /\ optAllFrames = FALSE
    /\ fs = [n \in NamesOf({}) |-> Absent]
    /\ indexFile = NoIndex
    /\ batchCaller = "none"
    /\ batchSize = MAX_IN_ONE_CALL
    /\ batchFiles = <<>>
    /\ MainLocalsInit
    /\ FetchLocalsInit

\* fetch_icebridge_data.main starts its retry loop (line 617) in a fresh
\* output folder, with the options parsed at lines 541-612.
FetchInit ==
    /\ SchedIdle
    /\ IndexIdle
    /\ pcFetch = "main"
    /\ haveNetrc \in BOOLEAN
    /\ haveCookies \in BOOLEAN
    /\ optType \in {"image", "ortho", "dem", "lvis"}
    /\ isSouth \in BOOLEAN
    /\ listing \in {1 .. n : n \in 0 .. MaxListed}
    /\ optAllFrames \in BOOLEAN
    /\ fetchStart \in 1 .. MaxListed
    /\ fetchStop \in fetchStart .. MaxListed
    /\ optAllFrames => (fetchStart = 1 /\ fetchStop = 1)
    /\ maxNumToFetch \in {-1} \cup (1 .. MaxToFetch)
    /\ skipValidate \in BOOLEAN
    /\ dryRun \in BOOLEAN
    /\ fs = [n \in NamesOf(1 .. MaxListed) |-> Absent]
    /\ indexFile = NoIndex
    /\ batchCaller = "none"
    /\ batchSize = MAX_IN_ONE_CALL
    /\ batchFiles = <<>>
    /\ MainLocalsInit
    /\ FetchLocalsInit
    \* the fetch list is bounded
    /\ LET lines == IndexLines(listing, optType)
           all   == optAllFrames \/ optType \in LIDAR_TYPES
           files == Truncated(
                      FilesOfFrames(lines,
                          IF all THEN FirstFrame(lines) ELSE fetchStart,
                          IF all THEN LastFrame(lines) ELSE fetchStop),
                      maxNumToFetch)
       IN  Len(files) <= MaxToFetch

FetchNext ==
    \/ DoFetchStart
    \/ ResolveIndex
    \/ BatchStep
    \/ CurlDeliver
    \/ BatchReturn
    \/ ValidateStep
    \/ DoFetchReturn
    \/ MainCheck
    \/ MainExhausted

SpecFetch == FetchInit /\ [][FetchNext]_vars

\* fetchFilesInBatches alone, called with a list of distinct files of which
\* some are already on disk, and a batch size.
BatchesInit ==
    /\ SchedIdle
    /\ IndexIdle
    /\ pcFetch = "batch"
    /\ batchCaller = "alone"
    /\ haveNetrc = TRUE
    /\ haveCookies = TRUE
    /\ optType = "image"
    /\ isSouth = TRUE
    /\ fetchStart = 1
    /\ fetchStop = 1
    /\ maxNumToFetch = -1
    /\ skipValidate = FALSE
    /\ listing = {}
    /\ optAllFrames = FALSE
    /\ indexFile = NoIndex
    /\ MainLocalsInit
    /\ FetchLocalsInit
    /\ \/ \E n \in 0 .. MaxList :
             /\ batchFiles = [k \in 1 .. n |-> Name(k, <<".JPG">>)]
             /\ fs \in [{Name(k, <<".JPG">>) : k \in 1 .. n} ->
                          {Absent, EmptyFile, Data(TRUE, "a")}]
             /\ batchSize \in 1 .. MaxBatch
             /\ dryRun \in BOOLEAN
       \* 250 files to fetch with the batch size of the callers; the
       \* commands are only logged
       \/ /\ batchFiles = [k \in 1 .. 250 |-> Name(k, <<".JPG">>)]
          /\ fs = [x \in {Name(k, <<".JPG">>) : k \in 1 .. 250} |-> Absent]
          /\ batchSize = MAX_IN_ONE_CALL
          /\ dryRun = TRUE

BatchesNext ==
    \/ BatchStep
    \/ CurlDeliver
    \/ BatchReturn

SpecBatches == BatchesInit /\ [][BatchesNext]_vars

----------------------------------------------------------------------------
(* fetchAndParseIndexFile alone *)

\* The frames of the listings: a one-digit and a two-digit frame number.
IndexFrames == {0, MaxIndexFrame}

\* The listing a folder of flight day dayVal can have.
ListingEntries(dayVal, separate) ==
    {[filename |-> ListedName(dayVal, f, sep), goodLat |-> g.good,
      hasLat |-> g.has] :
        f \in IndexFrames, sep \in Seps,
        g \in (IF separate
               THEN {[good |-> TRUE, has |-> TRUE], [good |-> FALSE, has |-> TRUE],
                     [good |-> FALSE, has |-> FALSE]}
               ELSE {[good |-> TRUE, has |-> TRUE]})}

\* A file listed twice has one metadata file.
Listings(dayVal, separate) ==
    {l \in UNION {[1 .. n -> ListingEntries(dayVal, separate)] :
                     n \in 0 .. MaxDayList} :
        \A i, j \in 1 .. Len(l) : l[i].filename = l[j].filename => l[i] = l[j]}

\* A parsed index an earlier run has left in the output folder.
StaleIndex == <<IndexLine(1, ListedName(0, 1, "."), getFolderUrl(0))>>

\* A parsed index of the older format: a frame and a file name on a line.
OldFormatIndex == <<Str(1) \o <<",", " ">> \o ListedName(0, 1, ".")>>

\* The listing of a lidar folder that has files: one file.
LidarListings(dayVal) ==
    {<<e>> : e \in {x \in ListingEntries(dayVal, FALSE) : x.filename[5] = "."}}

\* doFetch calls fetchAndParseIndexFile (line 384) for listings of one or
\* two flight days.
IndexInit ==
    /\ SchedIdle
    /\ FetchIdle
    /\ pcIndex = "start"
    /\ fetchNextDay \in BOOLEAN
    /\ refetchIndex \in BOOLEAN
    /\ indexType \in {"image", "ortho"} \cup LIDAR_TYPES
    /\ separateByLat = (indexType = "ortho")
    /\ IF indexType \in LIDAR_TYPES
       THEN /\ candidates \in [LIDAR_TYPES -> LidarKinds]
            /\ \E first \in LidarListings(0) :
               \E second \in (IF fetchNextDay THEN LidarListings(1)
                              ELSE {<<>>}) :
                  dayLists = <<first, second>>
       ELSE /\ candidates = NoCandidates
            /\ \E first \in Listings(0, separateByLat) :
               \E second \in (IF fetchNextDay THEN Listings(1, separateByLat)
                              ELSE {<<>>}) :
                  dayLists = <<first, second>>
    /\ dayI = 1
    /\ frameDict = EmptyDict
    /\ urlDict = EmptyDict
    /\ parsedIndex \in {<<>>, StaleIndex, OldFormatIndex}
    /\ readBack = NotRead
    /\ source = NoSource
    /\ readTries = 0
    /\ cycle = 1
    /\ optRefetch = refetchIndex

IndexNext ==
    \/ IndexStart
    \/ IndexDay
    \/ IndexWrite
    \/ IndexRead

SpecIndex == IndexInit /\ [][IndexNext]_vars

\* The retry loop of main counts at most MaxCycles calls of doFetch here.
MaxCycles == 3

\* main lines 620-632 and doFetch line 384: doFetch has read the index and
\* gone on to return a failure count that lets the loop go on, and the next
\* call of doFetch calls fetchAndParseIndexFile with the same options
\* object and the same output folder.
IndexRetry ==
    /\ pcIndex \in {"read", "readkept"}
    /\ cycle < MaxCycles
    /\ cycle < RetryBudget
    /\ cycle' = cycle + 1
    /\ pcIndex' = "start"
    /\ readTries' = 0
    /\ readBack' = NotRead
    /\ UNCHANGED <<fetchNextDay, refetchIndex, separateByLat, dayLists, dayI,
                   frameDict, urlDict, parsedIndex, indexType, candidates,
                   source, optRefetch>>
    /\ UNCHANGED <<fetchVars, runVars>>

RetryNext ==
    \/ IndexStart
    \/ IndexDay
    \/ IndexWrite
    \/ IndexRead
    \/ IndexRetry

\* The index resolver over the retry cycles of one run.
SpecRetry == IndexInit /\ [][RetryNext]_vars

----------------------------------------------------------------------------
(* process_icebridge_run.main, lines 352-408: the scheduling loop *)

\* Mutant of OutOfRange: no frame is skipped.
OutOfRange_Never(frameNumber) == FALSE

\* Lines 359-362: the frame is skipped as outside the user's range.
OutOfRange(frameNumber) ==
    \/ (optStartFrame # 0 /\ frameNumber < optStartFrame)
    \/ (optStopFrame  # 0 /\ frameNumber > optStopFrame)

\* Line 374: keep adding frames (no flush at this frame).
KeepAdding(batch, frameNumber) ==
    /\ Len(batch) < bundleLength
    /\ frameNumber < optStopFrame
    /\ frameNumber \notin breaks

\* Mutant of NextWorkingBatch: one frame too many is carried over.
NextWorkingBatch_OneMore(batch, hitBreakFrame) ==
    IF hitBreakFrame
    THEN <<>>
    ELSE SliceFrom(batch, (-1) * imageStereoInterval - 1)

\* Mutant of NextWorkingBatch: frames are carried over a break as well.
NextWorkingBatch_PastBreak(batch, hitBreakFrame) ==
    SliceFrom(batch, (-1) * imageStereoInterval)

\* Mutant of NextWorkingBatch: the whole batch is carried over.
NextWorkingBatch_Whole(batch, hitBreakFrame) ==
    IF hitBreakFrame THEN <<>> ELSE batch

\* Lines 397-407: the working batch the next frame is appended to.
NextWorkingBatch(batch, hitBreakFrame) ==
    IF hitBreakFrame
    THEN <<>>
    ELSE SliceFrom(batch, (-1) * imageStereoInterval)

\* Mutant of OutputFolder: the folder is named after the first frame only.
OutputFolder_FirstOnly(frames) ==
    <<"b", "a", "t", "c", "h", "_">> \o Str(frames[1])

\* Line 384: 'batch_' + str(frameNumbers[0]) + '_' + str(frameNumbers[-1]),
\* in the one output folder of the run.
OutputFolder(frames) ==
    <<"b", "a", "t", "c", "h", "_">> \o Str(frames[1]) \o <<"_">>
        \o Str(frames[Len(frames)])

\* Lines 388-392: unless this is a dry run the batch becomes a task of the
\* pool; batchNum is the number of batches emitted before it.
\* The task keeps the list object it was given (args) - the model also keeps
\* what the list held at that time (batch).
Submitted(t, batch, batchNum, ref) ==
    IF runDryRun THEN t
    ELSE Append(t, [batch |-> batch, num |-> batchNum, st |-> "queued",
                    ok |-> TRUE, args |-> ref,
                    folder |-> OutputFolder(batch)])

\* Mutant of Rebound: the list object is changed in place.
Rebound_InPlace(lists, ref, next) ==
    [lists |-> [lists EXCEPT ![ref] = next], ref |-> ref]

\* Lines 397-406: batchImageCameraPairs = [] and batchImageCameraPairs =
\* batchImageCameraPairs[batchOverlapCount:] bind the name to a new list
\* object; the one it was bound to is left as it is.
Rebound(lists, ref, next) ==
    [lists |-> Append(lists, next), ref |-> Len(lists) + 1]

\* One iteration of the loop at line 355.
SchedStep ==
    /\ pcRun = "sched"
    /\ schedI <= Len(imageFrames)
    /\ LET frameNumber == imageFrames[schedI]
           batch       == Append(frameNumbers, frameNumber)
       IN  /\ schedI' = schedI + 1
           /\ IF OutOfRange(frameNumber)
              THEN UNCHANGED <<frameNumbers, emitted, tasks, pairLists,
                               workList>>
              ELSE IF KeepAdding(batch, frameNumber)
                   THEN /\ frameNumbers' = batch
                        /\ pairLists' = [pairLists EXCEPT ![workList] =
                                            Append(@, frameNumber)]
                        /\ UNCHANGED <<emitted, tasks, workList>>
                   ELSE /\ emitted' = Append(emitted, batch)
                        /\ tasks' = Submitted(tasks, batch, Len(emitted),
                                              workList)
                        /\ frameNumbers' =
                              NextWorkingBatch(batch, frameNumber \in breaks)
                        /\ LET appended ==
                                  [pairLists EXCEPT ![workList] =
                                      Append(@, frameNumber)]
                               r == Rebound(appended, workList,
                                       NextWorkingBatch(appended[workList],
                                           frameNumber \in breaks))
                           IN  /\ pairLists' = r.lists
                               /\ workList' = r.ref
    /\ UNCHANGED <<pcRun, imageFrames, optStartFrame, optStopFrame,
                   bundleLength, imageStereoInterval, breaks>>
    /\ UNCHANGED <<indexVars, fetchVars, spaceVars>>
    /\ UNCHANGED <<runDryRun, logBatches, numProcesses, interactive, poolSize,
                   poolState, batchLog, notReady, cancelled, poolLog>>

\* Line 409: the loop has run out of input pairs.
SchedEnd ==
    /\ pcRun = "sched"
    /\ schedI > Len(imageFrames)
    /\ pcRun' = "submitted"
    /\ UNCHANGED <<imageFrames, optStartFrame, optStopFrame, bundleLength,
                   imageStereoInterval, breaks, schedI, frameNumbers, emitted,
                   pairLists, workList>>
    /\ UNCHANGED <<indexVars, fetchVars, spaceVars, poolVars>>

SchedInit ==
    /\ FetchIdle
    /\ IndexIdle
    /\ pcRun = "sched"
    /\ \E S \in SUBSET (1 .. MaxFrameNo) :
          /\ imageFrames = SortedSeq(S)
          /\ breaks \in SUBSET S
    /\ optStartFrame \in -1 .. 2
    /\ optStopFrame \in -1 .. (MaxFrameNo + 1)
    /\ bundleLength \in 1 .. MaxBundle
    /\ imageStereoInterval \in 1 .. MaxInterval
    /\ schedI = 1
    /\ frameNumbers = <<>>
    /\ emitted = <<>>
    /\ pairLists = << <<>> >>
    /\ workList = 1
    /\ SpaceIdle
    \* the batches are only printed (--dry-run); the pool has one worker
    /\ runDryRun = TRUE
    /\ logBatches = FALSE
    /\ numProcesses = 1
    /\ interactive = FALSE
    /\ poolSize = 1
    /\ poolState = "open"
    /\ tasks = <<>>
    /\ batchLog = <<>>
    /\ notReady = 0
    /\ cancelled = FALSE
    /\ poolLog = <<>>

SchedNext == SchedStep \/ SchedEnd

SpecSched == SchedInit /\ [][SchedNext]_vars

----------------------------------------------------------------------------
(* getImageSpacing alone *)

\* The bounding boxes the ortho images are drawn from: boxes of one size in
\* two rows, and a box of no extent.
BoxSet ==
    {Box(x, x + BoxWidth, y, y + 1) : x \in 0 .. MaxCoord, y \in 0 .. 1}
        \cup {Box(0, 0, 0, 0)}

\* main before the call at line 320, with the scheduling loop not started.
SchedNotStarted ==
    /\ imageFrames = <<>>
    /\ optStartFrame = -1
    /\ optStopFrame = -1
    /\ bundleLength = 2
    /\ imageStereoInterval = 0
    /\ breaks = {}
    /\ schedI = 1
    /\ frameNumbers = <<>>
    /\ emitted = <<>>
    /\ pairLists = << <<>> >>
    /\ workList = 1

SpacingInit ==
    /\ FetchIdle
    /\ IndexIdle
    /\ SchedNotStarted
    /\ pcRun = "start"
    /\ manualInterval = 0
    /\ interval = 0
    /\ meanRatio = Rounded(Frac(1, 1), 0)
    /\ breaksFound = <<>>
    /\ stoppedAt = 0
    /\ PoolIdle
    /\ \/ /\ orthoGiven = FALSE
          /\ bboxes = <<>>
          /\ orthoFrames = <<>>
       \/ /\ orthoGiven = TRUE
          /\ \E n \in 0 .. MaxOrthos :
                /\ bboxes \in [1 .. n -> BoxSet]
                /\ orthoFrames = [i \in 1 .. n |-> i]

SpacingNext == SpacingCall \/ SpacingStep \/ SpacingReturn

SpecSpacing == SpacingInit /\ [][SpacingNext]_vars

----------------------------------------------------------------------------
(* process_icebridge_run.main, lines 320-418: the interval choice, the     *)
(* worker pool, the wait loop and the shutdown of the pool                 *)

\* Mutant of PoolSizeFor: the pool gets the configured number of workers.
PoolSizeFor_AsGiven(logOnly, n) == n

\* Lines 340-347: one process when the commands are only logged.
PoolSizeFor(logOnly, n) == IF logOnly THEN 1 ELSE n

\* processBatch lines 64-80: the line written for a task, the batch number
\* and the command with the files of the batch.
LogLine(t) == [num |-> t.num, cmd |-> t.batch]

\* A line an earlier run left in batch_commands_log.txt.
OldLogLine == [num |-> 0, cmd |-> <<0>>]

\* Mutant of LogAfterWipe: the log of an earlier run is kept.
LogAfterWipe_Kept(log) == log

\* Line 344: rm -f of the batch log.
LogAfterWipe(log) == <<>>

\* Mutant of TooFewFiles: the automatic interval is taken whatever the
\* number of input files.
TooFewFiles_Never(k, numFiles) == FALSE

\* Line 328: if options.imageStereoInterval >= numFiles.
TooFewFiles(k, numFiles) == k >= numFiles

\* Lines 320-350: the result of getImageSpacing is unpacked (None cannot
\* be), the interval is the manual one or else the automatic one, which
\* must be smaller than the number of input files; then the batch log is
\* wiped and the pool is created.
SelectInterval ==
    /\ pcRun = "spaced"
    /\ IF ~orthoGiven
       THEN /\ pcRun' = "raised"
            /\ UNCHANGED <<imageStereoInterval, breaks, poolSize, poolState,
                           batchLog>>
       ELSE /\ breaks' = Range(breaksFound)
            /\ imageStereoInterval' =
                  IF manualInterval # 0 THEN manualInterval ELSE interval
            /\ IF manualInterval = 0 /\ TooFewFiles(interval, Len(imageFrames))
               THEN /\ pcRun' = "raised"
                    /\ UNCHANGED <<poolSize, poolState, batchLog>>
               ELSE /\ pcRun' = "sched"
                    /\ batchLog' = IF logBatches THEN LogAfterWipe(batchLog)
                                                 ELSE batchLog
                    /\ poolSize' = PoolSizeFor(logBatches, numProcesses)
                    /\ poolState' = "open"
    /\ UNCHANGED <<imageFrames, optStartFrame, optStopFrame, bundleLength,
                   schedI, frameNumbers, emitted,
                   pairLists, workList>>
    /\ UNCHANGED <<runDryRun, logBatches, numProcesses, interactive, tasks,
                   notReady, cancelled, poolLog>>
    /\ UNCHANGED <<indexVars, fetchVars, spaceVars>>

Running == {k \in DOMAIN tasks : tasks[k].st = "running"}
Queued  == {k \in DOMAIN tasks : tasks[k].st = "queued"}

\* AsyncResult.ready().
Ready(t) == t.st = "done"

\* Mutant of WorkerFree: one task more than there are workers may run.
WorkerFree_OneMore(running, size) == running <= size

\* multiprocessing.Pool(n) runs n worker processes (line 347).
WorkerFree(running, size) == running < size

\* Mutant of TaskStateAfter: an exception of the processing routine is not
\* caught and the task never becomes ready.
TaskStateAfter_Uncaught(ok) == IF ok THEN "done" ELSE "lost"

\* processBatch lines 84-87: the exception is caught and logged, the
\* function returns and the task is ready either way.
TaskStateAfter(ok) == "done"

\* A free worker of a pool that is not terminated takes the oldest task of
\* the queue and calls processBatch (line 388).
WorkerStart ==
    /\ poolState \in {"open", "closed"}
    /\ Queued # {}
    /\ WorkerFree(Cardinality(Running), poolSize)
    /\ LET k == CHOOSE q \in Queued : \A r \in Queued : q <= r
       IN  tasks' = [tasks EXCEPT ![k].st = "running"]
    /\ UNCHANGED <<runDryRun, logBatches, numProcesses, interactive, poolSize,
                   poolState, batchLog, notReady, cancelled, poolLog>>
    /\ UNCHANGED <<indexVars, fetchVars, schedVars, spaceVars>>

\* processBatch (lines 57-87) returns: in log-only mode it has appended its
\* line to the log; otherwise process_icebridge_batch.main has run and has
\* returned or raised.
WorkerFinish ==
    /\ poolState \in {"open", "closed"}
    /\ \E k \in Running :
          IF logBatches
          THEN /\ batchLog' = Append(batchLog, LogLine(tasks[k]))
               /\ tasks' = [tasks EXCEPT ![k].st = TaskStateAfter(TRUE)]
          ELSE /\ UNCHANGED batchLog
               /\ \E ok \in BOOLEAN :
                     tasks' = [tasks EXCEPT ![k].st = TaskStateAfter(ok),
                                            ![k].ok = ok]
    /\ UNCHANGED <<runDryRun, logBatches, numProcesses, interactive, poolSize,
                   poolState, notReady, cancelled, poolLog>>
    /\ UNCHANGED <<indexVars, fetchVars, schedVars, spaceVars>>

----------------------------------------------------------------------------
(* icebridge_common.waitForTaskCompletionOrKeypress, lines 410-433, and    *)
(* stopTaskPool, lines 435-442                                             *)

\* Mutant of NotReadyCount: every task is counted, ready or not.
NotReadyCount_All == Len(tasks)

\* Lines 429-432.
NotReadyCount == Cardinality({k \in DOMAIN tasks : ~Ready(tasks[k])})

\* What nonBlockingRawInput meets within the timeout: nothing, the quit
\* key, another line, or the end of the input (raw_input raises EOFError).
Keys == {"", "q", "x", "eof"}

\* Mutant of WaitGoesOn: the loop gives up with one task left.
WaitGoesOn_ButOne(n) == n > 1

\* Line 415: while notReady > 0.
WaitGoesOn(n) == n > 0

\* Lines 412-414: main calls the function (line 412 of main).
WaitEnter ==
    /\ pcRun = "submitted"
    /\ notReady' = Len(tasks)
    /\ pcRun' = "waiting"
    /\ UNCHANGED <<runDryRun, logBatches, numProcesses, interactive, poolSize,
                   poolState, tasks, batchLog, cancelled, poolLog>>
    /\ UNCHANGED <<imageFrames, optStartFrame, optStopFrame, bundleLength,
                   imageStereoInterval, breaks, schedI, frameNumbers, emitted,
                   pairLists, workList>>
    /\ UNCHANGED <<indexVars, fetchVars, spaceVars>>

\* Lines 415-432: one pass of the loop.
WaitPoll ==
    /\ pcRun = "waiting"
    /\ WaitGoesOn(notReady)
    /\ \E keypress \in (IF interactive THEN Keys ELSE {""}) :
          IF keypress = "eof"
            THEN /\ pcRun' = "raised"
                 /\ UNCHANGED <<notReady, cancelled>>
          ELSE IF interactive /\ keypress = "q"
            THEN /\ pcRun' = "waited"
                 /\ cancelled' = TRUE
                 /\ UNCHANGED notReady
          ELSE /\ notReady' = NotReadyCount
               /\ UNCHANGED <<pcRun, cancelled>>
    /\ UNCHANGED <<runDryRun, logBatches, numProcesses, interactive, poolSize,
                   poolState, tasks, batchLog, poolLog>>
    /\ UNCHANGED <<imageFrames, optStartFrame, optStopFrame, bundleLength,
                   imageStereoInterval, breaks, schedI, frameNumbers, emitted,
                   pairLists, workList>>
    /\ UNCHANGED <<indexVars, fetchVars, spaceVars>>

\* Lines 415 and 433: nothing is left to wait for.
WaitReturn ==
    /\ pcRun = "waiting"
    /\ ~WaitGoesOn(notReady)
    /\ pcRun' = "waited"
    /\ UNCHANGED poolVars
    /\ UNCHANGED <<imageFrames, optStartFrame, optStopFrame, bundleLength,
                   imageStereoInterval, breaks, schedI, frameNumbers, emitted,
                   pairLists, workList>>
    /\ UNCHANGED <<indexVars, fetchVars, spaceVars>>

\* Mutant of AfterTerminate: the workers are left alone.
AfterTerminate_Spared(t) == t

\* pool.terminate() (line 441): the workers are stopped at once; a task
\* that has not finished never will.
AfterTerminate(t) ==
    IF t.st \in {"queued", "running"} THEN [t EXCEPT !.st = "killed"] ELSE t

\* stopTaskPool, one call of lines 439-442 at a time.
StopTaskPool ==
    /\ \/ /\ pcRun = "waited"
          /\ pcRun' = "closed"
          /\ poolState' = "closed"
          /\ poolLog' = Append(poolLog, "close")
          /\ UNCHANGED tasks
       \/ /\ pcRun = "closed"
          /\ pcRun' = "slept"
          /\ poolLog' = Append(poolLog, "sleep")
          /\ UNCHANGED <<poolState, tasks>>
       \/ /\ pcRun = "slept"
          /\ pcRun' = "terminated"
          /\ poolState' = "terminated"
          /\ tasks' = [k \in DOMAIN tasks |-> AfterTerminate(tasks[k])]
          /\ poolLog' = Append(poolLog, "terminate")
       \/ /\ pcRun = "terminated"
          /\ pcRun' = "exited"
          /\ poolState' = "joined"
          /\ poolLog' = Append(poolLog, "join")
          /\ UNCHANGED tasks
    /\ UNCHANGED <<runDryRun, logBatches, numProcesses, interactive, poolSize,
                   batchLog, notReady, cancelled>>
    /\ UNCHANGED <<imageFrames, optStartFrame, optStopFrame, bundleLength,
                   imageStereoInterval, breaks, schedI, frameNumbers, emitted,
                   pairLists, workList>>
    /\ UNCHANGED <<indexVars, fetchVars, spaceVars>>

----------------------------------------------------------------------------
(* process_icebridge_run.main as a whole, from the call of getImageSpacing  *)
(* to the end of stopTaskPool                                              *)

\* Five square images in a row, each shifted by `shift` against the one
\* before it, with a gap between the third and the fourth.
RowWithGap(side, shift) ==
    [i \in 1 .. 5 |->
        LET x == (i - 1) * shift + (IF i >= 4 THEN 2 * side ELSE 0)
        IN  Box(x, x + side, 0, side)]

\* Images of BoxWidth by 1 in a row, each shifted by `shift`.
Row(n, shift) ==
    [i \in 1 .. n |-> Box((i - 1) * shift, (i - 1) * shift + BoxWidth, 0, 1)]

RunLocalsInit ==
    /\ FetchIdle
    /\ IndexIdle
    /\ pcRun = "start"
    /\ imageStereoInterval = 0
    /\ breaks = {}
    /\ schedI = 1
    /\ frameNumbers = <<>>
    /\ emitted = <<>>
    /\ pairLists = << <<>> >>
    /\ workList = 1
    /\ interval = 0
    /\ meanRatio = Rounded(Frac(1, 1), 0)
    /\ breaksFound = <<>>
    /\ stoppedAt = 0
    /\ PoolNone

RunInit ==
    /\ RunLocalsInit
    /\ batchLog \in {<<>>, <<OldLogLine>>}
    /\ \/ \* frames 0..4 with a gap after frame 2, bundle length 3
          /\ imageFrames = <<0, 1, 2, 3, 4>>
          /\ orthoFrames = <<0, 1, 2, 3, 4>>
          /\ orthoGiven = TRUE
          /\ \E shift \in 1 .. 2 : bboxes = RowWithGap(10, shift)
          /\ manualInterval = 0
          /\ bundleLength = 3
          /\ optStartFrame \in {-1, 0}
          /\ optStopFrame \in {-1, 0, 4, 5}
          /\ runDryRun \in BOOLEAN
          /\ logBatches = FALSE
          /\ interactive = FALSE
          /\ numProcesses \in 1 .. MaxProcs
       \/ \* a few images, any options
          /\ \E n \in 0 .. (MaxRunFrames + 1) :
                /\ imageFrames = [i \in 1 .. n |-> i]
                /\ optStopFrame \in {-1, 0, n}
          /\ optStartFrame = -1
          /\ bundleLength = 2
          /\ orthoGiven \in BOOLEAN
          /\ IF orthoGiven
             THEN \E m \in 0 .. (MaxRunFrames + 1) :
                     /\ orthoFrames = [i \in 1 .. m |-> i]
                     /\ \E shift \in {1, BoxWidth} : bboxes = Row(m, shift)
             ELSE orthoFrames = <<>> /\ bboxes = <<>>
          /\ manualInterval \in 0 .. 1
          /\ runDryRun \in BOOLEAN
          /\ logBatches \in BOOLEAN
          /\ interactive \in BOOLEAN
          /\ numProcesses \in 1 .. MaxProcs

RunNext ==
    \/ SpacingCall
    \/ SpacingStep
    \/ SpacingReturn
    \/ SelectInterval
    \/ SchedStep
    \/ SchedEnd
    \/ WorkerStart
    \/ WorkerFinish
    \/ WaitEnter
    \/ WaitPoll
    \/ WaitReturn
    \/ StopTaskPool

SpecRun == RunInit /\ [][RunNext]_vars

\* The scheduling the program relies on: the worker processes of the pool
\* keep taking and finishing tasks, and the main process keeps running its
\* wait loop (each sleep or prompt times out) and the calls of stopTaskPool.
RunFairness ==
    /\ WF_vars(WorkerStart)
    /\ WF_vars(WorkerFinish)
    /\ WF_vars(WaitPoll)
    /\ WF_vars(WaitReturn)
    /\ WF_vars(StopTaskPool)

SpecRunLive == SpecRun /\ RunFairness

----------------------------------------------------------------------------
(* Claims about the scheduling loop *)

InRangeFrames == {f \in Range(imageFrames) : ~OutOfRange(f)}
EmittedFrames == UNION {Range(emitted[k]) : k \in DOMAIN emitted}
BatchesWith(f) == {k \in DOMAIN emitted : f \in Range(emitted[k])}
LastOf(s) == s[Len(s)]
FinalFrame == CHOOSE m \in InRangeFrames : \A y \in InRangeFrames : y <= m
Trailing(s, n) == Range(SliceFrom(s, (-1) * n))

\* C9: when the scheduling loop has ended, the union of the frames of all
\* emitted batches equals the set of input frames inside the requested frame
\* range (no in-range frame is left in the unemitted working batch).
C9_CoverageAtLoopEnd ==
    pcRun = "submitted" => EmittedFrames = InRangeFrames

\* C10 (as claimed): when the loop has ended, every in-range frame that is
\* not a break frame and is not the final in-range frame is in exactly two
\* emitted batches, and these are consecutive in emission order.
C10_ExactlyTwoBatches ==
    pcRun = "submitted" =>
        \A f \in InRangeFrames :
            (f \notin breaks /\ f # FinalFrame) =>
                \E k \in DOMAIN emitted : BatchesWith(f) = {k, k + 1}

\* C10 (amended): every emitted frame is in at most interval+1 emitted
\* batches, and these are consecutive in emission order; a frame of batch k
\* is repeated in batch k+1 exactly when batch k was emitted at a non-break
\* frame and the frame is among the trailing `interval` frames of batch k.
C10_CarryOver ==
    \A f \in EmittedFrames :
        /\ Cardinality(BatchesWith(f)) <= imageStereoInterval + 1
        /\ \A j \in BatchesWith(f) : \A k \in BatchesWith(f) :
              \A m \in j .. k : m \in BatchesWith(f)
        /\ \A k \in BatchesWith(f) :
              (k + 1 \in DOMAIN emitted) =>
                 (   (k + 1 \in BatchesWith(f))
                 <=> (   LastOf(emitted[k]) \notin breaks
                      /\ f \in Trailing(emitted[k], imageStereoInterval)))

\* C10 witness: the loop has ended, some frame was carried over as often as
\* the interval allows, and another frame that is neither a break frame nor
\* the final frame is in one batch only.
C10_Witness ==
    /\ pcRun = "submitted"
    /\ Len(emitted) >= 2
    /\ \E f \in EmittedFrames :
          Cardinality(BatchesWith(f)) = imageStereoInterval + 1
    /\ \E f \in InRangeFrames :
          f \notin breaks /\ f # FinalFrame /\ Cardinality(BatchesWith(f)) = 1

\* C11: no emitted batch holds more frames than the bundle length, whatever
\* the bundle length and the stereo interval are.
C11_BatchSizeBound ==
    \A k \in DOMAIN emitted : Len(emitted[k]) <= bundleLength

----------------------------------------------------------------------------
(* Claims about the retry loop of fetch_icebridge_data.main *)

\* main has returned or has died of an exception.
Terminated == pcFetch \in {"done", "raised"}

\* C1: the retry loop runs doFetch at most 10 times, and once doFetch has
\* returned a non-zero count equal to the count of the cycle before it, main
\* has looked at it and stopped with the failure result -1; no further cycle
\* runs.
C1_RetryTermination ==
    /\ attempt <= RetryBudget
    /\ (/\ Len(rets) = 2
        /\ rets[2] # 0
        /\ rets[2] = rets[1]
        /\ pcFetch # "check")
       => (pcFetch = "done" /\ result = <<-1>>)

\* C1 witness: after at least two cycles main has stopped early, with a
\* failure, at a positive count equal to the count before it.
C1_Witness ==
    /\ pcFetch = "done"
    /\ result = <<-1>>
    /\ attempt >= 2
    /\ attempt < RetryBudget
    /\ Len(rets) = 2
    /\ rets[2] = rets[1]
    /\ rets[2] > 0

\* C2: main returns 0 exactly when the last cycle it ran reported zero
\* failures; it returns as soon as a cycle reports zero (no cycle follows a
\* zero count); while a cycle is running there is no result; every other
\* termination has a non-zero result.
C2_SuccessIffZeroCount ==
    /\ Terminated =>
          /\ result # <<>>
          /\ (result = <<0>>) <=> (rets # <<>> /\ LastOf(rets) = 0)
    /\ ~Terminated => result = <<>>
    /\ Len(rets) = 2 => rets[1] # 0
    /\ (rets # <<>> /\ LastOf(rets) = 0 /\ pcFetch # "check")
          => (pcFetch = "done" /\ result = <<0>>)

\* C2 witness: main has returned 0 at a cycle that followed a failed one.
C2_Witness ==
    /\ pcFetch = "done"
    /\ result = <<0>>
    /\ attempt >= 2
    /\ Len(rets) = 2
    /\ rets[1] > 0
    /\ rets[2] = 0

----------------------------------------------------------------------------
(* Claims about the validation loop of doFetch *)

\* The metadata file a validation failure of the file p is about.
SidecarOf(p) == IF fileExtension(p) = ".xml" THEN p ELSE xmlFile(p)

\* A check of the last validation iteration has failed.
CheckFailed == lastVal.failed \in {"missing", "image", "latitude", "chksum",
                                    "tfw"}

\* C3: with validation enabled, when main has returned 0 every file of the
\* fetch list exists and is not empty.
C3_SuccessMeansAllPresent ==
    (pcFetch = "done" /\ result = <<0>> /\ ~skipValidate) =>
        \A k \in DOMAIN allFilesToFetch : fileNonEmpty(allFilesToFetch[k])

\* C4: after a validation iteration in which a check has failed, the file
\* it looked at and the metadata file that goes with it are gone, and the
\* iteration has added to the failed files of the cycle.
C4_FailedCheckDeletesAndCounts ==
    (pcFetch = "validate" /\ CheckFailed) =>
        /\ ~exists(lastVal.path)
        /\ ~exists(SidecarOf(lastVal.path))
        /\ Len(lastVal.recorded) >= 1

\* The last validation iteration has checked the content hash of a file
\* against a checksum of its metadata file that differs from it: the file
\* was non-empty and, if an image, decodable, so that the loop got to its
\* checksum check or world file check.
MismatchChecked ==
    /\ pcFetch = "validate"
    /\ lastVal.mismatch
    /\ lastVal.failed \notin {"skipped", "missing", "image"}

\* C5 (as claimed): a file whose hash differs from the checksum of its
\* metadata file is deleted together with the metadata file and adds exactly
\* one failure to the cycle.
C5_MismatchCountsOnce ==
    MismatchChecked =>
        /\ ~exists(lastVal.path)
        /\ ~exists(xmlFile(lastVal.path))
        /\ Len(lastVal.recorded) = 1

\* C5 (amended): a non-empty (and, if an image, decodable) file whose hash
\* differs from the checksum of its metadata file fails the checksum check or
\* the world file check, is deleted together with the metadata file, and the
\* check adds exactly two entries to the failed files of the cycle: the file
\* and its metadata file.
C5_MismatchCountsTwice ==
    MismatchChecked =>
        /\ lastVal.failed \in {"chksum", "tfw"}
        /\ ~exists(lastVal.path)
        /\ ~exists(xmlFile(lastVal.path))
        /\ lastVal.wiped = {lastVal.path, xmlFile(lastVal.path)}
        /\ lastVal.recorded = <<lastVal.path, xmlFile(lastVal.path)>>
        /\ Len(failedFiles) >= 2

\* C5 witness: the checksum check has just failed for a decodable raster
\* whose hash differs from the checksum of its metadata file.
C5_Witness ==
    /\ MismatchChecked
    /\ lastVal.failed = "chksum"
    /\ hasImageExtension(lastVal.path)

\* C8: without one of the two authentication files nothing is ever
\* transported (no probe, no index fetch, no download), doFetch is called
\* once only, and main returns -1.
C8_NoAuthNoTransport ==
    (~haveNetrc \/ ~haveCookies) =>
        /\ transports = {}
        /\ invocations = <<>>
        /\ attempt <= 1
        /\ \A n \in DOMAIN fs : ~exists(n)
        /\ Terminated => (pcFetch = "done" /\ attempt = 1 /\ result = <<-1>>)

\* C8 witness: main has returned with one authentication file present and
\* the other absent.
C8_Witness ==
    /\ pcFetch = "done"
    /\ haveNetrc # haveCookies
    /\ listing # {}
    /\ attempt = 1

----------------------------------------------------------------------------
(* Claims about fetchFilesInBatches *)

\* The files that were missing or empty when the loop examined them, in
\* input order.
PendingFiles ==
    LET P == {i \in DOMAIN examined : examined[i]}
        Nth(r) == CHOOSE i \in P : Cardinality({j \in P : j <= i}) = r
    IN  [r \in 1 .. Cardinality(P) |-> batchFiles[Nth(r)]]

\* The files of the first k commands, in the order they were issued.
RECURSIVE Issued(_)
Issued(k) == IF k = 0 THEN <<>> ELSE Issued(k - 1) \o invocations[k]

CeilDiv(n, b) == (n + b - 1) \div b

\* C6: when fetchFilesInBatches returns, with n files found missing or
\* empty and batch size B, it has issued ceil(n/B) commands, none empty,
\* each of at most B files and all but the last of exactly B; 250 missing
\* files with B = 100 give commands of 100, 100 and 50 files.
C6_BatchCount ==
    pcFetch = "returned" =>
        LET n == Len(PendingFiles)
        IN  /\ Len(invocations) = CeilDiv(n, batchSize)
            /\ \A k \in DOMAIN invocations :
                  /\ Len(invocations[k]) >= 1
                  /\ Len(invocations[k]) <= batchSize
                  /\ k < Len(invocations) =>
                        Len(invocations[k]) = batchSize
            /\ (n = 250 /\ batchSize = 100) =>
                  [k \in DOMAIN invocations |-> Len(invocations[k])]
                      = <<100, 100, 50>>

\* C6 witness: the function has returned after 250 missing files with batch
\* size 100.
C6_Witness ==
    /\ pcFetch = "returned"
    /\ Len(batchFiles) = 250
    /\ batchSize = 100
    /\ Len(invocations) = 3

\* C7: when fetchFilesInBatches returns, every file of the list was
\* examined, no file that was present and non-empty when examined is in any
\* command, and the files of the commands, in the order issued, are exactly
\* the files found missing or empty, in input order (each of them once).
C7_PendingExactlyOnce ==
    pcFetch = "returned" =>
        /\ Len(examined) = Len(batchFiles)
        /\ \A i \in DOMAIN examined :
              ~examined[i] =>
                 \A k \in DOMAIN invocations :
                    batchFiles[i] \notin Range(invocations[k])
        /\ Issued(Len(invocations)) = PendingFiles

\* C7 witness: the function has returned from a list that mixes present and
\* missing files in which a missing file comes before the last file, which
\* is present.
C7_Witness ==
    /\ pcFetch = "returned"
    /\ Len(examined) >= 2
    /\ ~examined[Len(examined)]
    /\ \E i \in DOMAIN examined : examined[i]
    /\ invocations # <<>>

----------------------------------------------------------------------------
(* Claims about getImageSpacing *)

\* The pairs (i, i+k) of ortho images with positive intersection area.
OverlapPairs(k) ==
    {i \in 1 .. (Len(bboxes) - k) :
        getBboxArea(Intersect(bboxes[i], bboxes[i + k])) > 0}

\* The sum over the pairs S of intersection area / area of the earlier image.
RECURSIVE RatioSum(_, _)
RatioSum(S, k) ==
    IF S = {} THEN Frac(0, 1)
    ELSE LET i == CHOOSE x \in S : TRUE
         IN  FracPlus(RatioSum(S \ {i}, k),
                      getBboxArea(Intersect(bboxes[i], bboxes[i + k])),
                      getBboxArea(bboxes[i]))

\* The exact mean overlap ratio at interval k, which has overlapping pairs.
MeanAt(k) ==
    FracOver(RatioSum(OverlapPairs(k), k), Cardinality(OverlapPairs(k)))

\* The mean overlap ratio at interval k is above 0.8 (it is not when no
\* pair overlaps).
MeanAboveMax(k) ==
    OverlapPairs(k) # {} /\ FracGreater(MeanAt(k), MAX_RATIO)

\* The mean overlap ratio at interval k is 0.8 or more.
MeanAtLeastMax(k) ==
    OverlapPairs(k) # {} /\ ~FracLess(MeanAt(k), MAX_RATIO)

\* getImageSpacing has returned an interval and breaks.
SpacingReturned == pcRun = "spaced" /\ orthoGiven

----------------------------------------------------------------------------
(* Claims about whole runs of process_icebridge_run.main *)

\* Five frames 0..4 whose neighbours overlap with a ratio of 0.8 or more,
\* except that frames 2 and 3 do not intersect; bundle length 3 and no
\* manual interval.
ScenarioA ==
    /\ imageFrames = <<0, 1, 2, 3, 4>>
    /\ orthoGiven
    /\ orthoFrames = <<0, 1, 2, 3, 4>>
    /\ Len(bboxes) = 5
    /\ \A i \in {1, 2, 4} :
          5 * getBboxArea(Intersect(bboxes[i], bboxes[i + 1]))
              >= 4 * getBboxArea(bboxes[i])
    /\ getBboxArea(Intersect(bboxes[3], bboxes[4])) = 0
    /\ bundleLength = 3
    /\ manualInterval = 0

\* C12: in that scenario getImageSpacing returns interval 1 and the breaks
\* [2], and the scheduling loop emits exactly the batches [0,1,2] and [3,4].
C12_ScenarioA ==
    ScenarioA =>
        /\ pcRun = "spaced" => (interval = 1 /\ breaksFound = <<2>>)
        /\ pcRun = "submitted" => emitted = << <<0, 1, 2>>, <<3, 4>> >>

----------------------------------------------------------------------------
(* Claims about the index resolver *)

\* C14: the parsed index written at the end of fetchAndParseIndexFile, read
\* back with readIndexFile, gives the two dictionaries it was written from.
C14_IndexRoundTrip ==
    pcIndex = "read" =>
        /\ ~readBack.raised
        /\ readBack.frameDict = frameDict
        /\ readBack.urlDict = urlDict

\* What the listing of each flight day gives on its own: the folder of the
\* day is chosen (for lidar among the folders that exist) and its listing
\* is parsed.
DayDict(k) ==
    LET folder == ChooseFolder(k - 1, indexType, dayLists[k], isSouth)
    IN  fetchAndParseIndexFileAux(separateByLat, folder.url, folder.listing)

Merged == fetchNextDay /\ pcIndex \in {"written", "read"}

\* C20: with the next-day option, every frame of the first day's listing
\* has the first day's file name and folder in the merged index, and an
\* entry of the second day is there only for a frame the first day lacks.
C20_FirstDayWins ==
    Merged =>
        /\ \A f \in DOMAIN DayDict(1).frameDict :
              /\ f \in DOMAIN frameDict
              /\ frameDict[f] = DayDict(1).frameDict[f]
              /\ urlDict[f] = DayDict(1).urlDict[f]
        /\ \A f \in DOMAIN frameDict :
              f \notin DOMAIN DayDict(1).frameDict =>
                  /\ f \in DOMAIN DayDict(2).frameDict
                  /\ frameDict[f] = DayDict(2).frameDict[f]
                  /\ urlDict[f] = DayDict(2).urlDict[f]
        /\ DOMAIN urlDict = DOMAIN frameDict

\* Both days list frame 0 and only the second day lists the other frame.
C20_Witness ==
    /\ Merged
    /\ 0 \in DOMAIN DayDict(1).frameDict
    /\ 0 \in DOMAIN DayDict(2).frameDict
    /\ MaxIndexFrame \in DOMAIN DayDict(2).frameDict
    /\ MaxIndexFrame \notin DOMAIN DayDict(1).frameDict
    /\ frameDict[0] = DayDict(1).frameDict[0]
    /\ urlDict[MaxIndexFrame] = DayDict(2).urlDict[MaxIndexFrame]
    /\ urlDict[MaxIndexFrame] # urlDict[0]

----------------------------------------------------------------------------
(* Claims about the worker pool, the wait loop and the shutdown *)

\* The positions of main after waitForTaskCompletionOrKeypress has returned.
AfterWait == {"waited", "closed", "slept", "terminated", "exited"}

AllReady == \A k \in DOMAIN tasks : Ready(tasks[k])

\* C15: waitForTaskCompletionOrKeypress has returned only if every task is
\* ready or the operator has entered the quit key; without --interactive
\* there is no cancel, and it has not returned while a task is incomplete.
C15_WaitReturnsOnlyWhenDone ==
    /\ pcRun = "waited" => (AllReady \/ cancelled)
    /\ cancelled => interactive
    /\ (~interactive /\ pcRun \in AfterWait) => AllReady

\* A run without --interactive has come out of the wait loop with two tasks.
C15_Witness ==
    /\ pcRun = "waited"
    /\ ~interactive
    /\ Len(tasks) >= 2
    /\ AllReady

ShutdownCalls == <<"close", "sleep", "terminate", "join">>

\* C16: once the wait loop has exited, on completion or on the quit key,
\* the pool is closed, the grace period passes, the workers are terminated
\* and the pool is joined, in this order and not before; after the
\* termination no worker is running.
C16_ShutdownOrder ==
    /\ \E n \in 0 .. 4 : poolLog = SubSeq(ShutdownCalls, 1, n)
    /\ poolLog # <<>> => pcRun \in AfterWait
    /\ pcRun = "waited" => poolLog = <<>>
    /\ pcRun = "closed" => poolLog = SubSeq(ShutdownCalls, 1, 1)
    /\ pcRun = "slept" => poolLog = SubSeq(ShutdownCalls, 1, 2)
    /\ pcRun = "terminated" => poolLog = SubSeq(ShutdownCalls, 1, 3)
    /\ pcRun = "exited" => poolLog = ShutdownCalls
    /\ pcRun \in {"terminated", "exited"} =>
          \A k \in DOMAIN tasks : tasks[k].st \notin {"queued", "running"}

\* The operator has cancelled, a worker was still busy when the grace period
\* was over, and the shutdown has run to its end.
C16_Witness ==
    /\ pcRun = "exited"
    /\ cancelled
    /\ \E k \in DOMAIN tasks : tasks[k].st = "killed"
    /\ \E k \in DOMAIN tasks : tasks[k].st = "done"

\* C17: a batch whose processing raised has a ready task all the same; the
\* pool goes on, and when the wait loop returns without a cancel every
\* batch that was submitted has been executed, failed ones included.
C17_FailureIsContained ==
    /\ \A k \in DOMAIN tasks : ~tasks[k].ok => tasks[k].st = "done"
    /\ (pcRun \in {"sched", "submitted", "waiting", "waited"}
          /\ \E k \in DOMAIN tasks : ~tasks[k].ok) => poolState = "open"
    /\ (pcRun = "waited" /\ ~cancelled) =>
          \A k \in DOMAIN tasks : tasks[k].st = "done"

\* With one worker the first batch has failed, the second one has run after
\* it, and the wait loop has returned.
C17_Witness ==
    /\ pcRun = "waited"
    /\ ~cancelled
    /\ numProcesses = 1
    /\ Len(tasks) >= 2
    /\ ~tasks[1].ok
    /\ tasks[2].ok
    /\ tasks[2].st = "done"

\* C18: with --log-batches the pool has one worker whatever --num-processes
\* says, and at most one task is writing to the log at any time.
C18_LogOnlyOneWorker ==
    (logBatches /\ poolState # "none") =>
        /\ poolSize = 1
        /\ Cardinality(Running) <= 1

\* Two processes were asked for; one task writes while another one waits.
C18_Witness ==
    /\ logBatches
    /\ numProcesses = 2
    /\ Cardinality(Running) = 1
    /\ Queued # {}

\* C19: no more batches are being executed than the pool has workers; every
\* batch is submitted when it is emitted, whatever the earlier tasks are
\* doing, so that all of them are submitted when the wait loop starts.
C19_CapAndEagerSubmission ==
    /\ Cardinality(Running) <= (IF logBatches THEN 1 ELSE numProcesses)
    /\ ~runDryRun => Len(tasks) = Len(emitted)
    /\ \A k \in DOMAIN tasks : tasks[k].batch = emitted[k]
    /\ pcRun \in {"start", "spacing", "spaced"} => tasks = <<>>

\* The loop is still emitting batches while the first task has not even
\* been started, and the second batch is submitted behind it.
C19_Witness ==
    /\ pcRun = "sched"
    /\ Len(tasks) = 2
    /\ tasks[1].st = "queued"
    /\ tasks[2].st = "queued"
    /\ numProcesses = 1

----------------------------------------------------------------------------
(* Claims about the choice of the lidar folder *)

\* The lidar types whose folder exists, in the order of the probing.
FoundLidar == SelectSeq(LidarOrder, LAMBDA t : candidates[t].there)

\* The folder of type t has files and its first file has a latitude on the
\* requested side.
LidarMatches(t) ==
    /\ candidates[t].there
    /\ candidates[t].listed
    /\ candidates[t].hasLat
    /\ hasGoodLat(candidates[t].lat, isSouth)

\* The resolver has chosen the folder of a lidar run, or has raised.
LidarResolved ==
    /\ indexType \in LIDAR_TYPES
    /\ (pcIndex = "raised" \/ source # NoSource)

----------------------------------------------------------------------------
(* Claims about the separation of orthoimages by latitude *)

\* The files the first day lists for frame f, and those of them whose
\* latitude is on the requested side.
ListedFor(f) ==
    {i \in 1 .. Len(dayLists[1]) :
        getFrameNumberFromFilename2(dayLists[1][i].filename) = f}
GoodFor(f) == {i \in ListedFor(f) : dayLists[1][i].goodLat}

\* The first day's listing is one of orthoimages with two files of a frame.
SharedFrame ==
    /\ separateByLat
    /\ \E f \in IndexFrames : Cardinality(ListedFor(f)) >= 2

\* fetchAndParseIndexFileAux has raised on the first day's listing.
AuxRaised == pcIndex = "raised" /\ dayI = 1

\* fetchAndParseIndexFileAux has returned for the first day's listing and
\* the main index is what it returned.
AuxReturned == dayI = 2 /\ (~fetchNextDay \/ pcIndex = "days")

\* C22: for a listing of orthoimages in which two files share a frame,
\* fetchAndParseIndexFileAux raises when two files of one frame are both in
\* the requested hemisphere (or a metadata file has no latitude), and
\* otherwise returns a map in which each frame has the one file of that
\* frame that is in the requested hemisphere, and no file of the other one.
C22_OrthoMapOneGoodFilePerFrame ==
    SharedFrame =>
        /\ AuxRaised =>
              \/ \E f \in IndexFrames : Cardinality(GoodFor(f)) >= 2
              \/ \E i \in 1 .. Len(dayLists[1]) : ~dayLists[1][i].hasLat
        /\ (\E f \in IndexFrames : Cardinality(GoodFor(f)) >= 2) =>
              ~AuxReturned
        /\ AuxReturned =>
              /\ \A f \in DOMAIN frameDict :
                    /\ Cardinality(GoodFor(f)) = 1
                    /\ \A i \in GoodFor(f) :
                          frameDict[f] = dayLists[1][i].filename
              /\ \A f \in IndexFrames :
                    GoodFor(f) # {} => f \in DOMAIN frameDict
              /\ \A i \in 1 .. Len(dayLists[1]) :
                    ~dayLists[1][i].goodLat =>
                        \A f \in DOMAIN frameDict :
                            frameDict[f] # dayLists[1][i].filename

\* Two files of frame 0, one of each hemisphere: the map has the good one.
C22_Witness ==
    /\ SharedFrame
    /\ AuxReturned
    /\ Cardinality(ListedFor(0)) = 2
    /\ Cardinality(GoodFor(0)) = 1
    /\ 0 \in DOMAIN frameDict

----------------------------------------------------------------------------
(* Claims about the index of the old format *)

\* The number of comma-delimited fields of a line.
Fields(line) == Cardinality({i \in 1 .. Len(line) : line[i] = ","}) + 1

\* The first readIndexFile of doFetch has raised and the second one has not
\* been made yet.
FirstReadRaised == readTries = 1 /\ pcIndex \in {"start", "days", "written"}

\* C23: a persisted index with a line of fewer than three fields is never
\* the one the cycle goes on with: the read of it raises, which forces the
\* refetch, the index is wiped and rebuilt from the listing, and the map
\* the cycle continues with is read from the rebuilt index.
C23_OldFormatForcesRefetch ==
    /\ pcIndex = "readkept" =>
          \A k \in 1 .. Len(parsedIndex) : Fields(parsedIndex[k]) >= 3
    /\ (pcIndex = "kept" /\ \E k \in 1 .. Len(parsedIndex) :
                                Fields(parsedIndex[k]) < 3) => readTries = 0
    /\ FirstReadRaised =>
          /\ refetchIndex
          /\ pcIndex = "days" => parsedIndex = <<>>
          /\ pcIndex = "written" => parsedIndex = WrittenIndex(frameDict, urlDict)
    /\ readTries = 2 =>
          /\ pcIndex = "read"
          /\ parsedIndex = WrittenIndex(frameDict, urlDict)
          /\ DOMAIN readBack.frameDict = DOMAIN frameDict
    /\ pcIndex = "raised" => (parsedIndex = <<>> /\ dayI <= Len(DayVals))

\* The index of the old format was there, and the cycle has the map of the
\* rebuilt index.
C23_Witness ==
    /\ readTries = 2
    /\ pcIndex = "read"
    /\ frameDict # EmptyDict
    /\ readBack.frameDict # EmptyDict

----------------------------------------------------------------------------
(* Claims about an empty index *)

\* The parsed index the cycle has is empty.
EmptyIndex == indexFile.there /\ indexFile.lines = <<>>

\* C24: with an empty parsed index the cycle does not raise; it goes on with
\* no frame, so that nothing is on the fetch list and no file is asked of
\* the transport, and doFetch returns a count of failures (zero).
C24_EmptyIndexIsNotFatal ==
    EmptyIndex =>
        /\ pcFetch # "raised"
        /\ allFilesToFetch = <<>>
        /\ invocations = <<>>
        /\ "download" \notin transports
        /\ failedFiles = <<>>
        /\ pcFetch \in {"check", "done"} =>
              (numFailed = 0 /\ rets # <<>> /\ rets[Len(rets)] = 0)

\* The listing is empty, frames were asked for, and doFetch has returned.
C24_Witness ==
    /\ EmptyIndex
    /\ pcFetch = "check"
    /\ listing = {}
    /\ ~optAllFrames
    /\ ~dryRun
    /\ "index" \in transports

----------------------------------------------------------------------------
(* More claims about the scheduling loop *)

\* The frames of the input inside the range [start, stop] as the options
\* give it, no bound being given as 0 or less.
InRange(f) ==
    /\ (optStartFrame > 0 => f >= optStartFrame)
    /\ (optStopFrame > 0 => f <= optStopFrame)

\* The loop is at an in-range frame and this step handles it.
AtInRangeFrame ==
    /\ pcRun = "sched"
    /\ schedI <= Len(imageFrames)
    /\ schedI' = schedI + 1
    /\ optStartFrame >= 0
    /\ optStopFrame > 0
    /\ InRange(imageFrames[schedI])

\* C25: at an in-range frame the working batch is emitted if and only if
\* it has reached the bundle length with this frame, or the frame is the
\* last in-range frame of the input, or the frame is a break frame.
C25_FlushIff ==
    [][AtInRangeFrame =>
          LET f == imageFrames[schedI]
          IN  (emitted' # emitted) <=>
                 \/ Len(frameNumbers) + 1 >= bundleLength
                 \/ \A g \in Range(imageFrames) : InRange(g) => g <= f
                 \/ f \in breaks]_vars

\* C26: the batch emitted at a break frame b is followed by an empty
\* working batch: the working batch never holds a break frame, what it
\* holds lies after the last break flushed, and no emitted batch has b
\* together with a frame above b.
C26_NothingCarriedOverBreak ==
    /\ Range(frameNumbers) \cap breaks = {}
    /\ \A k \in DOMAIN emitted :
          LastOf(emitted[k]) \in breaks =>
              /\ \A f \in Range(frameNumbers) : f > LastOf(emitted[k])
              /\ (k + 1 \in DOMAIN emitted) =>
                    \A f \in Range(emitted[k + 1]) : f > LastOf(emitted[k])
    /\ \A k \in DOMAIN emitted :
          \A b \in breaks \cap Range(emitted[k]) :
              \A f \in Range(emitted[k]) : f <= b

\* A batch of two frames was emitted at a break frame and the batch after
\* it, also emitted, starts after the break.
C26_Witness ==
    \E k \in DOMAIN emitted :
        /\ LastOf(emitted[k]) \in breaks
        /\ Len(emitted[k]) >= 2
        /\ k + 1 \in DOMAIN emitted
        /\ Len(emitted[k + 1]) >= 2
        /\ emitted[k + 1][1] > LastOf(emitted[k])

\* The interval main has chosen: the manual one when it is given, else the
\* one getImageSpacing has returned.
ChosenInterval == IF manualInterval # 0 THEN manualInterval ELSE interval

\* C27: when a batch is emitted at a frame that is no break frame, the next
\* working batch is the trailing min(interval, batch size) frames of the
\* emitted batch, in their order, the interval being the manual one when
\* given and the analyzer's otherwise.
C27_SeedIsTrailingFrames ==
    [][(emitted' # emitted /\ LastOf(LastOf(emitted')) \notin breaks) =>
          LET b == LastOf(emitted')
              m == Min2(ChosenInterval, Len(b))
          IN  /\ emitted' = Append(emitted, b)
              /\ frameNumbers' = SubSeq(b, Len(b) - m + 1, Len(b))]_vars

\* A batch of three frames was emitted at a frame that is no break, the
\* analyzer's interval is in use, and two of the frames seed the next batch.
C27_Witness ==
    /\ pcRun = "sched"
    /\ manualInterval = 0
    /\ emitted # <<>>
    /\ Len(LastOf(emitted)) = 3
    /\ LastOf(LastOf(emitted)) \notin breaks
    /\ Len(frameNumbers) = 2
    /\ frameNumbers = SubSeq(LastOf(emitted), 2, 3)

\* C28: an emitted batch is not empty, its frames are input frames inside
\* the range, strictly ascending, and no in-range input frame between its
\* first and its last frame is missing from it.
C28_BatchIsRunOfInRangeFrames ==
    \A k \in DOMAIN emitted :
        LET b == emitted[k]
        IN  /\ b # <<>>
            /\ \A i \in 1 .. Len(b) :
                  b[i] \in Range(imageFrames) /\ InRange(b[i])
            /\ \A i \in 1 .. (Len(b) - 1) : b[i] < b[i + 1]
            /\ \A g \in Range(imageFrames) :
                  (InRange(g) /\ b[1] < g /\ g < b[Len(b)]) => g \in Range(b)

\* A frame below the start frame was skipped,
\* and a batch of in-range frames that are not neighbouring numbers is out.
C28_Witness ==
    /\ optStartFrame = 2
    /\ optStopFrame = 4
    /\ imageFrames = <<1, 2, 4>>
    /\ emitted = << <<2, 4>> >>

\* C29: the list a batch was submitted with holds, at any later time, what
\* it held when it was submitted, whatever the loop has done since.
C29_SubmittedBatchIsFrozen ==
    \A k \in DOMAIN tasks :
        /\ tasks[k].args \in DOMAIN pairLists
        /\ tasks[k].args # workList
        /\ pairLists[tasks[k].args] = tasks[k].batch
        /\ tasks[k].batch = emitted[k]

\* After the first batch was submitted the loop has re-seeded the working
\* batch, appended to it and submitted a second batch, and has a third
\* working batch in the making.
C29_Witness ==
    /\ Len(tasks) = 2
    /\ tasks[1].args # tasks[2].args
    /\ tasks[2].batch[1] \in Range(tasks[1].batch)
    /\ pairLists[workList] # <<>>
    /\ pairLists[tasks[1].args] = emitted[1]

\* ---------------------------------------------------------------------
\* The break set of getImageSpacing.

\* The frames, in input order from position i on, whose box and the box of
\* the next frame in the sorted sequence intersect in an area of 0 or less.
RECURSIVE AdjacentGaps(_)
AdjacentGaps(i) ==
    IF i > Len(bboxes) - 1 THEN <<>>
    ELSE LET rest == AdjacentGaps(i + 1)
         IN  IF getBboxArea(Intersect(bboxes[i], bboxes[i + 1])) <= 0
             THEN <<orthoFrames[i]>> \o rest
             ELSE rest

\* The pass at interval 1 is over and no exception has ended the function.
PastFirstPass ==
    /\ orthoGiven
    /\ pcRun \in {"spacing", "spaced"}
    /\ interval >= 1

\* C30: once the pass at interval 1 is over, and so when getImageSpacing
\* returns, the breaks are exactly the frames whose intersection with the
\* next frame of the sorted sequence has an area of 0 or less, each once and
\* in frame order; the passes at the intervals above 1 add nothing to them,
\* whatever interval the function returns.
C30_BreaksAreAdjacentGaps ==
    PastFirstPass => breaksFound = AdjacentGaps(1)

\* getImageSpacing has returned an interval above 1 together with a break,
\* while some pair of frames two apart does not overlap either.
C30_Witness ==
    /\ SpacingReturned
    /\ stoppedAt >= 2
    /\ breaksFound # <<>>
    /\ \E i \in 1 .. Len(bboxes) - 2 :
           getBboxArea(Intersect(bboxes[i], bboxes[i + 2])) <= 0

\* ---------------------------------------------------------------------
\* The step back of getImageSpacing.

\* C31: when getImageSpacing returns after its search stopped at interval k
\* with the computed mean ratio r, the interval returned is k - 1 if r is
\* below 0.4 and k is above 1, and k otherwise; it is at most one below k
\* and it is at least 1.
C31_BackOffAtMostOnce ==
    SpacingReturned =>
        /\ interval = IF FloatLess(meanRatio, MIN_RATIO) /\ stoppedAt > 1
                       THEN stoppedAt - 1
                       ELSE stoppedAt
        /\ stoppedAt - interval \in {0, 1}
        /\ interval >= 1

\* The search stopped at an interval above 1 with a mean ratio below 0.4 and
\* the interval returned is one less.
C31_Witness ==
    /\ SpacingReturned
    /\ stoppedAt >= 2
    /\ FloatLess(meanRatio, MIN_RATIO)
    /\ interval = stoppedAt - 1

\* The search stopped at interval 1 with a mean ratio below 0.4 and 1 is
\* returned.
C31_WitnessAtOne ==
    /\ SpacingReturned
    /\ stoppedAt = 1
    /\ FloatLess(meanRatio, MIN_RATIO)
    /\ interval = 1

\* ---------------------------------------------------------------------
\* The automatic interval against the number of input files.

\* main is past the interval choice of lines 320-329.
IntervalChosen == pcRun \notin {"start", "spacing", "spaced"}

\* C32: when no manual interval is given and the automatic interval that
\* getImageSpacing returned is above the number of input files, main has
\* raised at the interval choice: no pool has been created and no batch has
\* been emitted or submitted.
C32_AbortBeforePool ==
    (   IntervalChosen /\ orthoGiven /\ manualInterval = 0
     /\ stoppedAt >= 1 /\ interval > Len(imageFrames)) =>
        /\ pcRun = "raised"
        /\ poolState = "none"
        /\ poolSize = 0
        /\ tasks = <<>>
        /\ emitted = <<>>

\* The search returned interval 2 for three ortho images, there is one
\* input image, and main has raised with no pool.
C32_Witness ==
    /\ IntervalChosen
    /\ orthoGiven
    /\ manualInterval = 0
    /\ stoppedAt >= 1
    /\ interval = 2
    /\ Len(imageFrames) = 1
    /\ pcRun = "raised"
    /\ poolState = "none"

\* ---------------------------------------------------------------------
\* Failed files and the next retry cycle.

\* doFetch has returned the number of files it recorded.
CycleEnded == pcFetch = "check" /\ numFailed >= 0

\* The batch loop of doFetch's call of fetchFilesInBatches is over in a
\* cycle that follows another one.
NextCycleFetched ==
    /\ pcFetch = "batch"
    /\ batchCaller = "doFetch"
    /\ fileIter > Len(batchFiles)
    /\ attempt >= 2

\* The file is named in a command the current call has issued.
Invoked(f) == \E k \in DOMAIN invocations : f \in Range(invocations[k])

\* The files recorded at the end of a cycle are not on disk.
FailedAreAbsent ==
    CycleEnded => \A f \in Range(failedFiles) : ~exists(f)

\* The files recorded in a cycle are requested in the cycle after it.
FailedAreRefetched ==
    NextCycleFetched => \A f \in prevFailed : Invoked(f)

\* C33: every file recorded as a validation failure in a cycle is absent
\* from disk when the cycle ends, and it is named in a transport command of
\* the next cycle when there is one.
C33_FailedFilesAreRefetched == FailedAreAbsent /\ FailedAreRefetched

\* What does hold: a recorded file is missing or empty when the cycle ends,
\* and a recorded file of the fetch list is requested in the next cycle.
FailedArePending ==
    CycleEnded => \A f \in Range(failedFiles) : ~fileNonEmpty(f)

ListedFailedAreRefetched ==
    NextCycleFetched =>
        \A f \in prevFailed : f \in Range(batchFiles) => Invoked(f)

\* ---------------------------------------------------------------------
\* The persisted index over the retry cycles.

\* The first read of some cycle raised: it is the one way refetchIndex
\* gets set when neither option asked for it.
StaleFound == refetchIndex /\ ~optRefetch /\ ~fetchNextDay

\* fetchAndParseIndexFile is entered in a cycle after the first, with a
\* non-empty parsed index on disk.
LaterCycleStarts ==
    /\ pcIndex = "start"
    /\ cycle >= 2
    /\ parsedIndex # <<>>

\* The call returns the parsed index as it is: no listing is fetched and
\* nothing is written.
IndexReused == pcIndex' = "kept" /\ parsedIndex' = parsedIndex

\* C34: in every retry cycle after the first, a non-empty parsed index is
\* reused without a remote access and without being written, unless the
\* refetch option was given or the index was found unreadable.
C34_IndexResolvedOnce ==
    [][(LaterCycleStarts /\ ~optRefetch /\ ~StaleFound) => IndexReused]_vars

\* What does hold: the same without the next-day option.
C34_ResolvedOnceWithoutNextDay ==
    [][(LaterCycleStarts /\ ~optRefetch /\ ~StaleFound /\ ~fetchNextDay)
          => IndexReused]_vars

\* With the next-day option the index of the first cycle is wiped and
\* resolved again in the second.
C34_NextDayRefetched ==
    /\ cycle = 2
    /\ fetchNextDay
    /\ ~optRefetch
    /\ pcIndex = "days"
    /\ parsedIndex = <<>>
    /\ dayLists[1] # <<>>

\* ---------------------------------------------------------------------
\* The batch log of a log-only run.

\* A log-only run that was neither a dry run nor cancelled is over: the
\* wait loop has returned.
LogOnlyRunOver ==
    /\ logBatches
    /\ ~runDryRun
    /\ ~cancelled
    /\ pcRun \in {"waited", "closed", "slept", "terminated", "exited"}

\* After such a run the log holds one line per emitted batch and no other
\* line; line k has batch number k - 1 and the files of the k-th emitted
\* batch.
LogMatchesEmission ==
    LogOnlyRunOver =>
        batchLog = [k \in 1 .. Len(emitted) |->
                       [num |-> k - 1, cmd |-> emitted[k]]]

\* Once the pool is there, every change of the log of a log-only run adds
\* one line at its end.
LogOnlyAppended ==
    [][(logBatches /\ poolState # "none" /\ batchLog' # batchLog) =>
          \E l \in {LogLine(tasks[k]) : k \in DOMAIN tasks} :
              batchLog' = Append(batchLog, l)]_vars

\* C35: after a log-only run that was neither a dry run nor cancelled, the
\* batch log holds exactly one line per emitted batch of the run, with the
\* batch numbers 0, 1, ... in the order of emission and the arguments of
\* that batch; during the run the log is only appended to.
C35_BatchLog == []LogMatchesEmission /\ LogOnlyAppended

\* Two processes were asked for; the run has emitted two batches, the pool
\* is shut down and the log holds their two lines.
C35_Witness ==
    /\ LogOnlyRunOver
    /\ pcRun = "exited"
    /\ Len(emitted) = 2
    /\ Len(batchLog) = 2
    /\ batchLog[2].num = 1
    /\ numProcesses = 2

\* ---------------------------------------------------------------------
\* The wait loop ends.

\* The wait loop was left by the exception of a prompt that met the end of
\* the input.
InputEnded == pcRun = "raised"

\* stopTaskPool has run to its end.
PoolShutDown == pcRun = "exited" /\ poolState = "joined"

C36_WitnessBatchMode ==
    /\ PoolShutDown
    /\ ~interactive
    /\ Len(tasks) = 2
    /\ \A k \in DOMAIN tasks : Ready(tasks[k])

\* ---------------------------------------------------------------------
\* The output folders of the batches.

\* Python's str() of the first and of the last frame of a batch with an
\* underscore between them.
FirstAndLast(batch) == Str(batch[1]) \o <<"_">> \o Str(batch[Len(batch)])

\* C37: the last frame strictly increases from one emitted batch to the
\* next; the folder of every task is 'batch_<first>_<last>' of its batch,
\* and no two tasks of the pass, whether they run at the same time or not,
\* have the same folder.
C37_FoldersAreDistinct ==
    /\ \A j \in DOMAIN emitted : \A k \in DOMAIN emitted :
          j < k => emitted[j][Len(emitted[j])] < emitted[k][Len(emitted[k])]
    /\ \A k \in DOMAIN tasks :
          tasks[k].folder =
              <<"b", "a", "t", "c", "h", "_">> \o FirstAndLast(tasks[k].batch)
    /\ \A j \in DOMAIN tasks : \A k \in DOMAIN tasks :
          j # k => tasks[j].folder # tasks[k].folder

\* Two batches that begin with the same frame are being processed at the
\* same time: the interval is not below the bundle length, so the whole
\* first batch was carried over.
C37_Witness ==
    /\ Len(tasks) >= 2
    /\ Cardinality(Running) = 2
    /\ tasks[1].batch[1] = tasks[2].batch[1]
    /\ tasks[1].folder # tasks[2].folder

\* ---------------------------------------------------------------------
\* The frame range at its defaults.

\* --start-frame and --stop-frame were not given (lines 198-201).
RangeAtDefaults == optStartFrame = -1 /\ optStopFrame = -1

DefaultsSkipEveryFrame ==
    RangeAtDefaults => (emitted = <<>> /\ frameNumbers = <<>>)

\* ---------------------------------------------------------------------
\* The outcomes of getImageSpacing.

\* Every bounding box has a positive area.
BoxesHaveArea == \A i \in DOMAIN bboxes : getBboxArea(bboxes[i]) > 0

\* The function has returned an interval of at least 1 and below the
\* number of frames.
ReturnedInterval ==
    /\ pcRun = "spaced"
    /\ interval >= 1
    /\ interval < Len(bboxes)

\* The exception of line 147: the interval tried is not below the number
\* of frames.
TooFewFrames == pcRun = "raised" /\ Len(bboxes) <= interval

\* The function was ended by an exception with enough frames for the
\* interval tried: the division of line 172 with no overlapping pair.
DivisionByZero == pcRun = "raised" /\ Len(bboxes) > interval

\* C39: for boxes of positive area the search tries no more intervals than
\* there are frames (one at least when there is none), and once it is over
\* it has returned an interval k with 1 <= k < number of frames or raised
\* the too-few-frames exception.
C39_ReturnsOrTooFew ==
    (orthoGiven /\ BoxesHaveArea) =>
        /\ interval <= Len(bboxes) \/ interval = 1
        /\ pcRun \notin {"start", "spacing"} =>
              (ReturnedInterval \/ TooFewFrames)

\* What does hold: the third outcome is the division by zero.
ReturnsOrTooFewOrDivision ==
    (orthoGiven /\ BoxesHaveArea) =>
        /\ interval <= Len(bboxes) \/ interval = 1
        /\ pcRun \notin {"start", "spacing"} =>
              (ReturnedInterval \/ TooFewFrames \/ DivisionByZero)

\* Two boxes of positive area that do not overlap: the pass at interval 1
\* has no pair to average over.
C39_NoOverlapDivides ==
    /\ orthoGiven
    /\ BoxesHaveArea
    /\ Len(bboxes) = 2
    /\ interval = 1
    /\ DivisionByZero

\* ---------------------------------------------------------------------
\* A manual interval without an ortho folder.

\* --image-stereo-interval was given and --ortho-folder was not.
ManualWithoutOrthos == manualInterval # 0 /\ ~orthoGiven

\* C40: with a manual interval and no ortho folder the spacing analysis is
\* skipped, main goes on to the scheduling loop with the manual interval
\* and no break frame, and it never ends with an exception before that.
C40_ManualIntervalRuns ==
    ManualWithoutOrthos =>
        /\ pcRun # "raised"
        /\ pcRun \notin {"start", "spacing", "spaced"} =>
              (imageStereoInterval = manualInterval /\ breaks = {})

\* What the code does: getImageSpacing returns None, the unpacking at line
\* 322 raises, and no pool is created and no batch emitted.
ManualWithoutOrthosRaises ==
    (ManualWithoutOrthos /\ pcRun \notin {"start", "spaced"}) =>
        /\ pcRun = "raised"
        /\ poolState = "none"
        /\ emitted = <<>>
        /\ tasks = <<>>

====
